---- MODULE Spec2Model ----
(***************************************************************************)
(* OpenContext: the document/folder catalog (opencontext-core/src/lib.rs), *)
(* the indexer (search/indexer.rs, search/vector_store.rs) and the index   *)
(* synchronisation service (search/index_sync.rs).                         *)
(*                                                                         *)
(* Strings of the program are sequences of one-character strings, so that  *)
(* splitting on "/", slicing by length and SQL LIKE matching are computed  *)
(* the way the code computes them.                                         *)
(***************************************************************************)
EXTENDS Integers, Sequences, FiniteSets, Bags, TLC

VARIABLES
    folders,      \* rows of table folders
    docs,         \* rows of table docs
    dirs,         \* directories on the filesystem (absolute paths)
    files,        \* regular files on the filesystem (absolute paths)
    folderSeq,    \* AUTOINCREMENT counter of folders (last id handed out)
    docSeq,       \* AUTOINCREMENT counter of docs
    emitted,      \* events the last catalog call published on the bus
    allOk,        \* no call that returned Err has left a change behind
    calls,        \* catalog calls so far that changed the store or the filesystem
    enabled,          \* IndexSyncService.enabled
    pending_actions,  \* IndexSyncService.pending_actions: path key -> IndexAction
    received,         \* events the listener has folded into pending_actions since the last drain
    eventCount,       \* events published so far
    flushPc,          \* the flush task: "idle" at ticker.tick(), "executing" inside the for loop
    actions,          \* the drained actions the for loop has not reached yet
    drained,          \* the map the last drain took
    drainedFrom,      \* the value of received when the last drain took it
    executed,         \* the actions the current or last flush has executed, in order
    indexerCalls,     \* the indexer's index_file / remove_file calls of that flush, in order
    success_count,    \* of the current or last flush
    error_count,      \* of the current or last flush
    metadataUpdated,  \* the last completed flush called update_metadata
    tableExists,      \* VectorStore.table.is_some()
    chunks,           \* rows of the vector table: row -> how often the table holds it
    threads,          \* the calls in progress on one shared OpenContext
    clock,            \* the last value Utc::now() returned, in milliseconds
    folderMeta,       \* folder id -> the description and updated_at columns of its row
    docMeta,          \* doc id -> the description and updated_at columns of its row
    lastIndexed,      \* rel_path -> the chunks the last indexing of that file built
    lance,            \* the LanceDB database: whether it holds the table, and the vector length of its schema
    indexer,          \* Indexer: vector_store.dimensions, dimensions_verified, and how often the store was re-created
    embedding,        \* EmbeddingClient.actual_dimensions, and the vector length the API returns
    given,            \* the arguments of the last call of a function without state
    returned,         \* what that call returned
    build,            \* the application's build_search_index command: its position and its own Indexer
    node,             \* the node binding: INDEX_SYNC_RUNNING and the service task it spawned
    contents          \* abs path -> what the file holds, in the runs that follow what files hold

catalogVars == <<folders, docs, dirs, files, folderSeq, docSeq, emitted, allOk, calls>>

syncVars ==
    <<enabled, pending_actions, received, eventCount, flushPc, actions, drained, drainedFrom,
      executed, indexerCalls, success_count, error_count, metadataUpdated, tableExists, chunks>>

metaVars == <<clock, folderMeta, docMeta>>

dimVars == <<lance, indexer, embedding>>

pureVars == <<given, returned>>

appVars == <<build, node>>

vars == <<catalogVars, syncVars, threads, metaVars, lastIndexed, dimVars, pureVars, appVars, contents>>

-----------------------------------------------------------------------------
(* Bounds of the model *)

\* deepest folder path the inputs name (docs live one level below)
MaxDepth == 2
\* ids the folders table may hand out
MaxFolderSeq == 2
\* ids the docs table may hand out
MaxDocSeq == 2
\* calls that change the store or the filesystem in one run
MaxCalls == 5

\* events published in a run of the synchronisation service
MaxEvents == 4

\* config.embedding.dimensions, in units of the model
config_dimensions == 1
\* the lengths the vectors of an embedding model may have
VectorLengths == {config_dimensions, config_dimensions + 1}
\* the database with or without the table, created at the configured dimensions
LanceOf(table) == [table |-> table, dimensions |-> IF table THEN config_dimensions ELSE 0]

\* folder names a caller creates; "_" is an ordinary file-name character
Names == {<<"a">>, <<"_">>}
\* the further name a folder is renamed to
NewNames == {<<"b">>}
\* document names a caller creates, and the further name a doc is renamed to
DocNames == {<<"x">>}
NewDocNames == {<<"y">>}
\* how many values randomblob(16) can format to; 0 stands for the empty string
StableIdCount == 2
StableIds == 1..StableIdCount

-----------------------------------------------------------------------------
(* Strings and paths *)

None == <<"None">>
NoRow == [id |-> 0]

\* AppState.indexer starts as None and no build command is in progress
NoBuild == [pc |-> "idle", paths |-> <<>>, indexer |-> <<>>]

\* INDEX_SYNC_RUNNING starts false and no service task has been spawned
NoNode ==
    [INDEX_SYNC_RUNNING |-> FALSE, CONTEXT |-> FALSE, service |-> "none",
     returned |-> [result |-> "none", started |-> FALSE, was_running |-> FALSE]]

RECURSIVE SplitSlash(_)
\* str::split('/'): the segments of s, empty ones included
SplitSlash(s) ==
    IF \A i \in 1..Len(s) : s[i] # "/" THEN <<s>>
    ELSE LET i == CHOOSE k \in 1..Len(s) : s[k] = "/" /\ \A j \in 1..(k-1) : s[j] # "/"
         IN <<SubSeq(s, 1, i - 1)>> \o SplitSlash(SubSeq(s, i + 1, Len(s)))

RECURSIVE JoinSlash(_)
\* [..].join("/")
JoinSlash(segs) ==
    IF segs = <<>> THEN <<>>
    ELSE IF Len(segs) = 1 THEN segs[1]
    ELSE segs[1] \o <<"/">> \o JoinSlash(Tail(segs))

RECURSIVE Trim(_)
\* str::trim for the one whitespace character of the model
Trim(s) ==
    IF s = <<>> THEN s
    ELSE IF Head(s) = " " THEN Trim(Tail(s))
    ELSE IF s[Len(s)] = " " THEN Trim(SubSeq(s, 1, Len(s) - 1))
    ELSE s

\* .replace('\\', "/")
ReplaceBackslash(s) == [i \in 1..Len(s) |-> IF s[i] = "\\" THEN "/" ELSE s[i]]

\* .split('/').filter(|segment| !segment.is_empty()).collect().join("/")
CleanSegments(s) ==
    LET segs == SplitSlash(ReplaceBackslash(s))
    IN JoinSlash(SelectSeq(segs, LAMBDA x : x # <<>>))

normalize_folder_path(value) ==
    LET trimmed == Trim(value)
    IN IF trimmed = <<>> \/ trimmed = <<".">> \/ trimmed = <<"/">> THEN <<>>
       ELSE CleanSegments(trimmed)

\* Err is modelled by None
normalize_doc_path(value) ==
    LET cleaned == CleanSegments(Trim(value))
    IN IF cleaned = <<>> THEN None ELSE cleaned

parent_rel_path(rel_path) ==
    IF rel_path = <<>> THEN None
    ELSE LET parts == SplitSlash(rel_path)
             joined == JoinSlash(SubSeq(parts, 1, Len(parts) - 1))
         IN IF joined = <<>> THEN None ELSE joined

\* rel_path.split('/').last()
LastSegment(rel_path) == LET parts == SplitSlash(rel_path) IN parts[Len(parts)]

ContainsSlash(s) == \E i \in 1..Len(s) : s[i] = "/"

\* str::starts_with
StartsWith(s, prefix) ==
    Len(prefix) <= Len(s) /\ SubSeq(s, 1, Len(prefix)) = prefix

\* format!("{}/{}", a, b)
Slash(a, b) == a \o <<"/">> \o b

\* ASCII case folding of SQLite's LIKE
Lower(c) == IF c = "A" THEN "a" ELSE IF c = "B" THEN "b" ELSE c

RECURSIVE Like(_, _)
\* SQLite: s LIKE pat ('%' any run, '_' any one character, ASCII case-insensitive)
Like(s, pat) ==
    IF pat = <<>> THEN s = <<>>
    ELSE IF Head(pat) = "%"
         THEN Like(s, Tail(pat)) \/ (s # <<>> /\ Like(Tail(s), pat))
    ELSE /\ s # <<>>
         /\ (Head(pat) = "_" \/ Lower(Head(pat)) = Lower(Head(s)))
         /\ Like(Tail(s), Tail(pat))

\* format!("{}/%", rel_path)
like_pattern(rel_path) == rel_path \o <<"/", "%">>

\* &child_rel[folder.rel_path.len() + 1..]
SuffixAfter(child_rel, rel_path) == SubSeq(child_rel, Len(rel_path) + 2, Len(child_rel))

-----------------------------------------------------------------------------
(* Filesystem under contexts_root *)

contexts_root == <<"~">>

\* contexts_root.join(rel_path)
AbsJoin(rel_path) == IF rel_path = <<>> THEN contexts_root ELSE Slash(contexts_root, rel_path)

\* Path::parent
FsParent(abs) == JoinSlash(SubSeq(SplitSlash(abs), 1, Len(SplitSlash(abs)) - 1))

\* p and the directories above it, up to contexts_root
RECURSIVE Ancestors(_)
Ancestors(abs) ==
    IF Len(SplitSlash(abs)) <= 1 THEN {abs} ELSE {abs} \cup Ancestors(FsParent(abs))

\* <<>> stands for the directory that holds contexts_root (and the ones above it):
\* every other entry is below it
Under(abs, dir) == IF dir = <<>> THEN abs # <<>> ELSE StartsWith(abs, dir \o <<"/">>)

\* path resolution by the operating system: "." names the directory itself, ".."
\* the one above; the paths above contexts_root all resolve to <<>>
RECURSIVE ResolveSegments(_, _)
ResolveSegments(segs, acc) ==
    IF segs = <<>> THEN acc
    ELSE IF Head(segs) = <<".">> THEN ResolveSegments(Tail(segs), acc)
    ELSE IF Head(segs) = <<".", ".">>
         THEN ResolveSegments(Tail(segs), SubSeq(acc, 1, Len(acc) - 1))
    ELSE ResolveSegments(Tail(segs), Append(acc, Head(segs)))

Resolve(abs) ==
    IF \A i \in 1..Len(abs) : abs[i] # "." THEN abs
    ELSE JoinSlash(ResolveSegments(SplitSlash(abs), <<>>))

FsOk(w) == [ok |-> TRUE, w |-> w]
FsErr(w) == [ok |-> FALSE, w |-> w]

\* fs::create_dir_all: fails when a component exists as a regular file
create_dir_all(w, abs) ==
    LET p == Resolve(abs)
    IN IF Ancestors(p) \cap w.files # {} THEN FsErr(w)
       ELSE FsOk([w EXCEPT !.dirs = @ \cup Ancestors(p)])

\* fs::write(abs, ""): creates or truncates the file
fs_write(w, abs) ==
    LET p == Resolve(abs)
    IN IF p \in w.dirs \/ FsParent(p) \notin w.dirs THEN FsErr(w)
       ELSE FsOk([w EXCEPT !.files = @ \cup {p}])

\* the entries strictly below a directory
Subtree(w, dir) == {p \in w.dirs \cup w.files : Under(p, dir)}

Rebase(p, old, new) == new \o SubSeq(p, Len(old) + 1, Len(p))

\* fs::rename (rename(2)): a file replaces a file, a directory replaces an empty directory
fs_rename(w, from, to) ==
    LET old == Resolve(from)
        new == Resolve(to)
    IN IF old \notin w.dirs \cup w.files \/ FsParent(new) \notin w.dirs THEN FsErr(w)
       ELSE IF old = new THEN FsOk(w)
       ELSE IF old \in w.files
            THEN IF new \in w.dirs THEN FsErr(w)
                 ELSE FsOk([w EXCEPT !.files = (@ \ {old}) \cup {new}])
       ELSE IF new \in w.files \/ Under(new, old) \/ Subtree(w, new) # {} THEN FsErr(w)
       ELSE LET moved(S) == {p \in S : p # old /\ ~Under(p, old)}
                               \cup {Rebase(p, old, new) : p \in {q \in S : q = old \/ Under(q, old)}}
            IN FsOk([w EXCEPT !.dirs = moved(@), !.files = moved(@)])

\* fs::remove_file
fs_remove_file(w, abs) ==
    LET p == Resolve(abs)
    IN IF p \notin w.files THEN FsErr(w) ELSE FsOk([w EXCEPT !.files = @ \ {p}])

\* fs::remove_dir: the directory must be empty
fs_remove_dir(w, abs) ==
    LET p == Resolve(abs)
    IN IF p \notin w.dirs \/ Subtree(w, p) # {} THEN FsErr(w)
       ELSE FsOk([w EXCEPT !.dirs = @ \ {p}])

\* fs::remove_dir_all
fs_remove_dir_all(w, abs) ==
    LET p == Resolve(abs)
    IN IF p \notin w.dirs THEN FsErr(w)
       ELSE FsOk([w EXCEPT !.dirs = {q \in @ : q # p /\ ~Under(q, p)},
                           !.files = {q \in @ : ~Under(q, p)}])

\* Path::exists
fs_exists(w, abs) == Resolve(abs) \in w.dirs \cup w.files

-----------------------------------------------------------------------------
(* The relational store: tables folders and docs *)

\* the state a catalog call reads and writes
World ==
    [folders |-> folders, docs |-> docs, dirs |-> dirs, files |-> files,
     folderSeq |-> folderSeq, docSeq |-> docSeq]

\* the store without the UNIQUE constraint on rel_path
unique_rel_path_unchecked(rows) == TRUE

\* rel_path TEXT NOT NULL UNIQUE (both tables)
unique_rel_path(rows) ==
    \A r1 \in rows : \A r2 \in rows : r1.rel_path = r2.rel_path => r1 = r2

\* CREATE UNIQUE INDEX idx_docs_stable_id ON docs(stable_id)
unique_stable_id(rows) ==
    \A r1 \in rows : \A r2 \in rows : r1.stable_id = r2.stable_id => r1 = r2

find_folder(w, rel_path) ==
    IF \E f \in w.folders : f.rel_path = rel_path
    THEN CHOOSE f \in w.folders : f.rel_path = rel_path
    ELSE NoRow

find_doc(w, rel_path) ==
    IF \E d \in w.docs : d.rel_path = rel_path
    THEN CHOOSE d \in w.docs : d.rel_path = rel_path
    ELSE NoRow

\* (SELECT id FROM folders WHERE rel_path = ?1); 0 stands for NULL
parent_id_subquery(w, parent) ==
    IF parent = None THEN 0 ELSE find_folder(w, parent).id

DbOk(w) == [ok |-> TRUE, w |-> w]
DbErr(w) == [ok |-> FALSE, w |-> w]

\* INSERT INTO folders (...) VALUES ((SELECT id ...), name, rel_path, abs_path, ...)
insert_folder(w, parent, name, rel_path, abs_path) ==
    LET row == [id |-> w.folderSeq + 1, parent_id |-> parent_id_subquery(w, parent),
                name |-> name, rel_path |-> rel_path, abs_path |-> abs_path]
    IN IF unique_rel_path(w.folders \cup {row})
       THEN DbOk([w EXCEPT !.folders = @ \cup {row}, !.folderSeq = @ + 1])
       ELSE DbErr(w)

\* INSERT INTO docs (...): folder_id REFERENCES folders(id), rel_path and stable_id unique
insert_doc(w, folder_id, name, rel_path, abs_path, sid) ==
    LET row == [id |-> w.docSeq + 1, folder_id |-> folder_id, name |-> name,
                rel_path |-> rel_path, abs_path |-> abs_path, stable_id |-> sid]
    IN IF /\ \E f \in w.folders : f.id = folder_id
          /\ unique_rel_path(w.docs \cup {row})
          /\ unique_stable_id(w.docs \cup {row})
       THEN DbOk([w EXCEPT !.docs = @ \cup {row}, !.docSeq = @ + 1])
       ELSE DbErr(w)

\* an UPDATE of docs that also clears stable_id
update_doc_clears_stable_id(w, old_row, new_row) ==
    IF old_row \notin w.docs THEN DbOk(w)
    ELSE DbOk([w EXCEPT !.docs = (@ \ {old_row}) \cup {[new_row EXCEPT !.stable_id = 0]}])

\* UPDATE docs SET ... WHERE id = ?: the row is replaced, constraints checked
update_doc(w, old_row, new_row) ==
    LET rows == (w.docs \ {old_row}) \cup {new_row}
    IN IF old_row \notin w.docs THEN DbOk(w)
       ELSE IF unique_rel_path(rows) /\ (\E f \in w.folders : f.id = new_row.folder_id)
       THEN DbOk([w EXCEPT !.docs = rows])
       ELSE DbErr(w)

RECURSIVE CascadeFolders(_, _)
\* ON DELETE CASCADE through folders.parent_id: the ids deleted with ids
CascadeFolders(rows, ids) ==
    LET more == {f.id : f \in {g \in rows : g.parent_id \in ids}} \ ids
    IN IF more = {} THEN ids ELSE CascadeFolders(rows, ids \cup more)

\* DELETE FROM folders WHERE <sel>, with the cascades into folders and docs
delete_folders(w, sel) ==
    LET gone == CascadeFolders(w.folders, {f.id : f \in sel})
    IN [w EXCEPT !.folders = {f \in @ : f.id \notin gone},
                 !.docs = {d \in @ : d.folder_id \notin gone}]

RECURSIVE SortById(_)
\* rows in rowid order, the order of a table scan
SortById(rows) ==
    IF rows = {} THEN <<>>
    ELSE LET m == CHOOSE r \in rows : \A q \in rows : r.id <= q.id
         IN <<m>> \o SortById(rows \ {m})

\* SELECT rel_path FROM docs WHERE rel_path LIKE 'rel_path/%'
docs_like(w, rel_path) == {d \in w.docs : Like(d.rel_path, like_pattern(rel_path))}

folders_like(w, rel_path) == {f \in w.folders : Like(f.rel_path, like_pattern(rel_path))}

PathsOf(rowSeq) == [i \in 1..Len(rowSeq) |-> rowSeq[i].rel_path]

\* the row rewritten below new_rel_path, as the loops of the subtree transaction do
rebased_row(row, old_rel_path, new_rel_path) ==
    LET updated_rel == Slash(new_rel_path, SuffixAfter(row.rel_path, old_rel_path))
    IN [row EXCEPT !.rel_path = updated_rel, !.abs_path = AbsJoin(updated_rel)]

\* The transaction of rename_folder / move_folder: the folder row is updated to
\* head, then every folder row and doc row matching LIKE 'old/%' is rewritten.
\* An update that breaks UNIQUE(rel_path) aborts the call and the dropped
\* transaction rolls back.  (Names have one length here, so a row that is in the
\* way of another row's new path keeps that path: the outcome does not depend on
\* the order of the updates.)
subtree_tx(w, folder, head, new_rel_path) ==
    LET folders1 == {f \in w.folders : f.id # folder.id}
                        \cup (IF \E f \in w.folders : f.id = folder.id THEN {head} ELSE {})
        folder_rows == {f \in folders1 : Like(f.rel_path, like_pattern(folder.rel_path))}
        folders2 == (folders1 \ folder_rows)
                       \cup {rebased_row(f, folder.rel_path, new_rel_path) : f \in folder_rows}
        doc_rows == docs_like(w, folder.rel_path)
        docs2 == (w.docs \ doc_rows)
                       \cup {rebased_row(d, folder.rel_path, new_rel_path) : d \in doc_rows}
    IN IF /\ unique_rel_path(folders1)
          /\ unique_rel_path(folders2)
          /\ unique_rel_path(docs2)
       THEN DbOk([w EXCEPT !.folders = folders2, !.docs = docs2])
       ELSE DbErr(w)

-----------------------------------------------------------------------------
(* The catalog service: each operator is one public method of OpenContext,  *)
(* from the world before the call to the world after it, with the value     *)
(* returned and the events published.                                       *)

Ok(w, ret, ev) == [w |-> w, ok |-> TRUE, ret |-> ret, ev |-> ev]
Err(w) == [w |-> w, ok |-> FALSE, ret |-> <<>>, ev |-> <<>>]

RECURSIVE ensure_folder_record(_, _)
ensure_folder_record(w, rel_path) ==
    IF rel_path = <<>> THEN FsOk(w)
    ELSE IF find_folder(w, rel_path).id # 0 THEN FsOk(w)
    ELSE LET parent == parent_rel_path(rel_path)
             up == IF parent # None /\ parent # <<>>
                   THEN ensure_folder_record(w, parent) ELSE FsOk(w)
         IN IF ~up.ok THEN up
            ELSE LET abs_path == AbsJoin(rel_path)
                     made == create_dir_all(up.w, abs_path)
                 IN IF ~made.ok THEN made
                    ELSE insert_folder(made.w, parent, LastSegment(rel_path),
                                       rel_path, abs_path)

\* UPDATE folders SET description = ?1, updated_at = ?2 WHERE rel_path = ?3
update_folder_description(w, rel_path) == w

create_folder(w, path) ==
    LET rel_path == normalize_folder_path(path)
        parent_path == parent_rel_path(rel_path)
        ensured == IF parent_path # None THEN ensure_folder_record(w, parent_path)
                   ELSE FsOk(w)
        parent_for_compare == IF parent_path = None THEN <<>> ELSE parent_path
        abs_path == AbsJoin(rel_path)
        made == create_dir_all(ensured.w, abs_path)
        ins == insert_folder(made.w, parent_path, LastSegment(rel_path), rel_path, abs_path)
    IN IF rel_path = <<>> THEN Err(w)
       ELSE IF ~ensured.ok THEN Err(ensured.w)
       ELSE IF rel_path # parent_for_compare /\ find_folder(ensured.w, rel_path).id # 0
            THEN Ok(update_folder_description(ensured.w, rel_path), rel_path, <<>>)
       ELSE IF ~made.ok THEN Err(made.w)
       ELSE IF ~ins.ok THEN Err(ins.w)
       ELSE Ok(ins.w, rel_path, <<>>)

\* affected_docs of FolderEvent::Renamed / Moved
affected_pairs(paths, old_rel_path, new_rel_path) ==
    [i \in 1..Len(paths) |->
        <<paths[i], Slash(new_rel_path, SuffixAfter(paths[i], old_rel_path))>>]

\* The part rename_folder and move_folder share once the target path is known:
\* create_dir_all(parent), fs::rename, the SELECT of the affected docs, the
\* transaction and the event.
relocate_folder(w, kind, rel_path, folder, head, new_rel_path) ==
    LET new_abs_path == AbsJoin(new_rel_path)
        made == create_dir_all(w, FsParent(new_abs_path))
        moved == fs_rename(made.w, folder.abs_path, new_abs_path)
        affected_doc_paths == PathsOf(SortById(docs_like(moved.w, folder.rel_path)))
        tx == subtree_tx(moved.w, folder, [head EXCEPT !.abs_path = new_abs_path],
                         new_rel_path)
    IN IF find_folder(w, new_rel_path).id # 0 THEN Err(w)
       ELSE IF ~made.ok THEN Err(made.w)
       ELSE IF ~moved.ok THEN Err(moved.w)
       ELSE IF ~tx.ok THEN Err(tx.w)
       ELSE Ok(tx.w, <<rel_path, new_rel_path>>,
               << [type |-> kind, old_path |-> rel_path, new_path |-> new_rel_path,
                   affected_docs |->
                       affected_pairs(affected_doc_paths, folder.rel_path, new_rel_path)] >>)

rename_folder(w, path, new_name) ==
    LET rel_path == normalize_folder_path(path)
        folder == find_folder(w, rel_path)
        parent_path == parent_rel_path(rel_path)
        new_rel_path == IF parent_path # None /\ parent_path # <<>>
                        THEN Slash(parent_path, new_name) ELSE new_name
    IN IF rel_path = <<>> THEN Err(w)
       ELSE IF new_name = <<>> \/ ContainsSlash(new_name) THEN Err(w)
       ELSE IF folder.id = 0 THEN Err(w)
       ELSE relocate_folder(w, "FolderRenamed", rel_path, folder,
                            [folder EXCEPT !.name = new_name, !.rel_path = new_rel_path],
                            new_rel_path)

move_folder(w, path, dest_folder_path) ==
    LET rel_path == normalize_folder_path(path)
        dest_rel_folder == normalize_folder_path(dest_folder_path)
        folder == find_folder(w, rel_path)
        dest_folder == find_folder(w, dest_rel_folder)
        new_rel_path == IF dest_folder.rel_path = <<>> THEN folder.name
                        ELSE Slash(dest_folder.rel_path, folder.name)
    IN IF rel_path = <<>> THEN Err(w)
       ELSE IF dest_rel_folder = <<>> THEN Err(w)
       ELSE IF dest_rel_folder = rel_path \/ StartsWith(dest_rel_folder, rel_path \o <<"/">>)
            THEN Err(w)
       ELSE IF folder.id = 0 THEN Err(w)
       ELSE IF dest_folder.id = 0 THEN Err(w)
       ELSE relocate_folder(w, "FolderMoved", rel_path, folder,
                            [folder EXCEPT !.parent_id = dest_folder.id,
                                           !.rel_path = new_rel_path],
                            new_rel_path)

\* the four DELETE statements of remove_folder, in one transaction
remove_folder_tx(w, rel_path, folder) ==
    LET w1 == [w EXCEPT !.docs = @ \ docs_like(w, rel_path)]
        w2 == delete_folders(w1, folders_like(w1, rel_path))
        w3 == [w2 EXCEPT !.docs = {d \in @ : d.folder_id # folder.id}]
    IN delete_folders(w3, {f \in w3.folders : f.id = folder.id})

\* a count of child folders that finds none
child_count_none(w, folder) == 0

\* SELECT COUNT(1) FROM folders WHERE parent_id = ?1
child_count(w, folder) == Cardinality({f \in w.folders : f.parent_id = folder.id})

\* SELECT COUNT(1) FROM docs WHERE folder_id = ?1
doc_count(w, folder) == Cardinality({d \in w.docs : d.folder_id = folder.id})

remove_folder(w, path, force) ==
    LET rel_path == normalize_folder_path(path)
        folder == find_folder(w, rel_path)
        removed_docs == PathsOf(SortById(
            {d \in w.docs : Like(d.rel_path, like_pattern(rel_path)) \/ d.folder_id = folder.id}))
        tx == remove_folder_tx(w, rel_path, folder)
        gone == IF ~fs_exists(tx, folder.abs_path) THEN FsOk(tx)
                ELSE IF force THEN fs_remove_dir_all(tx, folder.abs_path)
                ELSE fs_remove_dir(tx, folder.abs_path)
    IN IF rel_path = <<>> THEN Err(w)
       ELSE IF folder.id = 0 THEN Err(w)
       ELSE IF ~force /\ (child_count(w, folder) > 0 \/ doc_count(w, folder) > 0) THEN Err(w)
       ELSE IF ~gone.ok THEN Err(gone.w)
       ELSE Ok(gone.w, rel_path,
               << [type |-> "FolderDeleted", rel_path |-> rel_path,
                   removed_docs |-> removed_docs] >>)

create_doc(w, folder_path, name, sid) ==
    LET rel_folder_path == normalize_folder_path(folder_path)
        folder == find_folder(w, rel_folder_path)
        rel_path == IF folder.rel_path = <<>> THEN name ELSE Slash(folder.rel_path, name)
        abs_path == AbsJoin(rel_path)
        made == create_dir_all(w, FsParent(abs_path))
        written == fs_write(made.w, abs_path)
        ins == insert_doc(written.w, folder.id, name, rel_path, abs_path, sid)
    IN IF name = <<>> THEN Err(w)
       ELSE IF ContainsSlash(name) THEN Err(w)
       ELSE IF folder.id = 0 THEN Err(w)
       ELSE IF find_doc(w, rel_path).id # 0 THEN Err(w)
       ELSE IF ~made.ok THEN Err(made.w)
       ELSE IF ~written.ok THEN Err(written.w)
       ELSE IF ~ins.ok THEN Err(ins.w)
       ELSE Ok(ins.w, <<rel_path, sid>>, << [type |-> "DocCreated", rel_path |-> rel_path] >>)

\* relocate_doc that does not look for a doc at the target path
relocate_doc_unchecked(w, kind, rel_doc_path, doc, new_row, new_rel_path) ==
    LET new_abs_path == AbsJoin(new_rel_path)
        made == create_dir_all(w, FsParent(new_abs_path))
        moved == fs_rename(made.w, doc.abs_path, new_abs_path)
        upd == update_doc(moved.w, doc, [new_row EXCEPT !.abs_path = new_abs_path])
    IN IF ~made.ok THEN Err(made.w)
       ELSE IF ~moved.ok THEN Err(moved.w)
       ELSE IF ~upd.ok THEN Err(upd.w)
       ELSE Ok(upd.w, <<rel_doc_path, new_rel_path>>,
               << [type |-> kind, old_path |-> rel_doc_path, new_path |-> new_rel_path] >>)

\* The part move_doc and rename_doc share once the target path is known.
relocate_doc(w, kind, rel_doc_path, doc, new_row, new_rel_path) ==
    LET new_abs_path == AbsJoin(new_rel_path)
        made == create_dir_all(w, FsParent(new_abs_path))
        moved == fs_rename(made.w, doc.abs_path, new_abs_path)
        upd == update_doc(moved.w, doc, [new_row EXCEPT !.abs_path = new_abs_path])
    IN IF find_doc(w, new_rel_path).id # 0 THEN Err(w)
       ELSE IF ~made.ok THEN Err(made.w)
       ELSE IF ~moved.ok THEN Err(moved.w)
       ELSE IF ~upd.ok THEN Err(upd.w)
       ELSE Ok(upd.w, <<rel_doc_path, new_rel_path>>,
               << [type |-> kind, old_path |-> rel_doc_path, new_path |-> new_rel_path] >>)

move_doc(w, doc_path, dest_folder_path) ==
    LET rel_doc_path == normalize_doc_path(doc_path)
        doc == find_doc(w, rel_doc_path)
        dest_rel_folder == normalize_folder_path(dest_folder_path)
        dest_folder == find_folder(w, dest_rel_folder)
        new_rel_path == IF dest_folder.rel_path = <<>> THEN doc.name
                        ELSE Slash(dest_folder.rel_path, doc.name)
    IN IF rel_doc_path = None THEN Err(w)
       ELSE IF doc.id = 0 THEN Err(w)
       ELSE IF dest_folder.id = 0 THEN Err(w)
       ELSE relocate_doc(w, "DocMoved", rel_doc_path, doc,
                         [doc EXCEPT !.folder_id = dest_folder.id, !.rel_path = new_rel_path],
                         new_rel_path)

rename_doc(w, doc_path, new_name) ==
    LET rel_doc_path == normalize_doc_path(doc_path)
        doc == find_doc(w, rel_doc_path)
        folder_rel == parent_rel_path(doc.rel_path)
        new_rel_path == IF folder_rel # None /\ folder_rel # <<>>
                        THEN Slash(folder_rel, new_name) ELSE new_name
    IN IF new_name = <<>> \/ ContainsSlash(new_name) THEN Err(w)
       ELSE IF rel_doc_path = None THEN Err(w)
       ELSE IF doc.id = 0 THEN Err(w)
       ELSE relocate_doc(w, "DocRenamed", rel_doc_path, doc,
                         [doc EXCEPT !.name = new_name, !.rel_path = new_rel_path],
                         new_rel_path)

remove_doc(w, doc_path) ==
    LET rel_doc_path == normalize_doc_path(doc_path)
        doc == find_doc(w, rel_doc_path)
        gone == IF fs_exists(w, doc.abs_path) THEN fs_remove_file(w, doc.abs_path)
                ELSE FsOk(w)
    IN IF rel_doc_path = None THEN Err(w)
       ELSE IF doc.id = 0 THEN Err(w)
       ELSE IF ~gone.ok THEN Err(gone.w)
       ELSE Ok([gone.w EXCEPT !.docs = {d \in @ : d.id # doc.id}], rel_doc_path,
               << [type |-> "DocDeleted", rel_path |-> rel_doc_path] >>)

\* the Doc returned, or NoRow for Err
get_doc_by_stable_id(w, stable_id) ==
    IF stable_id = 0 THEN NoRow
    ELSE IF \E d \in w.docs : d.stable_id = stable_id
         THEN CHOOSE d \in w.docs : d.stable_id = stable_id
    ELSE NoRow

\* the characters of the model in byte order, the order of SQLite's BINARY collation
CharOrder == <<" ", "%", ".", "/", "\\", "_", "a", "b", "c", "d", "t", "x", "y", "~">>
Ord(c) == CHOOSE i \in 1..Len(CharOrder) : CharOrder[i] = c

RECURSIVE StrLessEq(_, _)
\* memcmp order of two strings
StrLessEq(s, t) ==
    IF s = <<>> THEN TRUE
    ELSE IF t = <<>> THEN FALSE
    ELSE IF Head(s) = Head(t) THEN StrLessEq(Tail(s), Tail(t))
    ELSE Ord(Head(s)) < Ord(Head(t))

RECURSIVE order_by(_, _)
\* ORDER BY field
order_by(rows, field) ==
    IF rows = {} THEN <<>>
    ELSE LET m == CHOOSE r \in rows : \A q \in rows : StrLessEq(r[field], q[field])
         IN <<m>> \o order_by(rows \ {m}, field)

list_folders(w, all) ==
    IF all THEN Ok(w, order_by(w.folders, "rel_path"), <<>>)
    ELSE Ok(w, order_by({f \in w.folders : f.parent_id = 0}, "name"), <<>>)

list_docs(w, folder_path, recursive) ==
    LET rel_folder_path == normalize_folder_path(folder_path)
        folder == find_folder(w, rel_folder_path)
        pattern == IF folder.rel_path = <<>> THEN <<"%">> ELSE like_pattern(folder.rel_path)
    IN IF folder.id = 0 THEN Err(w)
       ELSE IF recursive
            THEN Ok(w, order_by({d \in w.docs : Like(d.rel_path, pattern)}, "rel_path"), <<>>)
       ELSE IF rel_folder_path = <<>>
            THEN Ok(w, order_by({d \in w.docs : d.folder_id = 0}, "name"), <<>>)
       ELSE Ok(w, order_by({d \in w.docs : d.folder_id = folder.id}, "name"), <<>>)

\* set_doc_description that publishes DocEvent::Updated
set_doc_description_emits(w, doc_path) ==
    LET rel_doc_path == normalize_doc_path(doc_path)
    IN IF rel_doc_path = None \/ find_doc(w, rel_doc_path).id = 0 THEN Err(w)
       ELSE Ok(w, rel_doc_path, << [type |-> "DocUpdated", rel_path |-> rel_doc_path] >>)

\* UPDATE docs SET description = ?1, updated_at = ?2 WHERE id = ?3; no event
set_doc_description(w, doc_path) ==
    LET rel_doc_path == normalize_doc_path(doc_path)
        doc == find_doc(w, rel_doc_path)
    IN IF rel_doc_path = None THEN Err(w)
       ELSE IF doc.id = 0 THEN Err(w)
       ELSE Ok(w, rel_doc_path, <<>>)

\* the row, its updated_at taken from the file's mtime; no event
get_doc_meta(w, doc_path) ==
    LET rel_doc_path == normalize_doc_path(doc_path)
        doc == find_doc(w, rel_doc_path)
    IN IF rel_doc_path = None THEN Err(w)
       ELSE IF doc.id = 0 THEN Err(w)
       ELSE Ok(w, rel_doc_path, <<>>)

\* as get_doc_meta, then fs::read_to_string(&doc.abs_path)
get_doc_content(w, doc_path) ==
    LET rel_doc_path == normalize_doc_path(doc_path)
        doc == find_doc(w, rel_doc_path)
    IN IF rel_doc_path = None THEN Err(w)
       ELSE IF doc.id = 0 THEN Err(w)
       ELSE IF doc.abs_path \notin w.files THEN Err(w)
       ELSE Ok(w, rel_doc_path, <<>>)

\* fs::write(&doc.abs_path, content), the UPDATE of the row, DocEvent::Updated
save_doc_content(w, doc_path) ==
    LET rel_doc_path == normalize_doc_path(doc_path)
        doc == find_doc(w, rel_doc_path)
        written == fs_write(w, doc.abs_path)
    IN IF rel_doc_path = None THEN Err(w)
       ELSE IF doc.id = 0 THEN Err(w)
       ELSE IF ~written.ok THEN Err(written.w)
       ELSE Ok(written.w, rel_doc_path,
               << [type |-> "DocUpdated", rel_path |-> rel_doc_path] >>)

-----------------------------------------------------------------------------
(* Inputs of the catalog calls *)

RECURSIVE PathsOfDepth(_)
PathsOfDepth(n) ==
    IF n <= 1 THEN Names ELSE {Slash(p, x) : p \in PathsOfDepth(n - 1), x \in Names}

\* paths as a caller may write them: root, not normalised, with a backslash
RawPaths == {<<>>, <<"/", "a">>, <<"a", "\\", "_">>}

\* folder paths a caller may create
NewFolderInputs == UNION {PathsOfDepth(n) : n \in 1..MaxDepth} \cup RawPaths

\* folder paths a caller may name: the ones the catalog holds, a fixed one, raw ones
FolderInputs == {f.rel_path : f \in folders} \cup {<<"a">>} \cup RawPaths

\* doc paths: the ones the catalog holds, a fixed one, raw ones
DocInputs ==
    {d.rel_path : d \in docs} \cup {<<"a", "/", "x">>, <<>>, <<"a", "/", "/", "x">>}

\* the ways a caller names the root folder
RootInputs == {<<>>, <<".">>, <<"/">>}

\* folder paths a caller may list
ListInputs == FolderInputs \cup RootInputs

FolderNameInputs == Names \cup NewNames \cup {<<>>, <<"a", "/", "b">>}

DocNameInputs == DocNames \cup NewDocNames \cup {<<>>, <<"x", "/", "y">>}

\* randomblob(16): any value; values are interchangeable, so of the values no row
\* holds only the least is drawn
StableIdInputs ==
    LET used == {d.stable_id : d \in docs}
        fresh == StableIds \ used
    IN used \cup {s \in fresh : \A t \in fresh : s <= t}

-----------------------------------------------------------------------------
(* The catalog as a state machine: one action per public method *)

\* OpenContext::initialize on an empty contexts root
CatalogInit ==
    /\ folders = {}
    /\ docs = {}
    /\ dirs = {contexts_root}
    /\ files = {}
    /\ folderSeq = 0
    /\ docSeq = 0
    /\ emitted = <<>>
    /\ allOk = TRUE
    /\ calls = 0

\* IndexSyncService::new
SyncServiceInit ==
    /\ enabled = TRUE
    /\ pending_actions = <<>>
    /\ received = <<>>
    /\ eventCount = 0
    /\ flushPc = "idle"
    /\ actions = {}
    /\ drained = <<>>
    /\ drainedFrom = <<>>
    /\ executed = <<>>
    /\ indexerCalls = <<>>
    /\ success_count = 0
    /\ error_count = 0
    /\ metadataUpdated = FALSE
    /\ chunks = EmptyBag
    /\ lastIndexed = <<>>
    /\ indexer = [dimensions |-> config_dimensions, dimensions_verified |-> FALSE,
                  recreated |-> 0]
    /\ embedding = [actual_dimensions |-> 0, vector_length |-> config_dimensions]

\* the description and timestamp columns are left out
NoMeta ==
    /\ clock = 0
    /\ folderMeta = <<>>
    /\ docMeta = <<>>

\* no call in progress
NoThreads == [t \in {1, 2} |-> [pc |-> "idle"]]

Init ==
    /\ CatalogInit
    /\ SyncServiceInit
    /\ tableExists = FALSE
    /\ lance = LanceOf(tableExists)
    /\ given = <<>>
    /\ returned = <<>>
    /\ build = NoBuild
    /\ node = NoNode
    /\ contents = <<>>
    /\ threads = NoThreads
    /\ NoMeta

\* the call returns out: its world becomes the state, its events are on the bus
Returns(out) ==
    /\ out.w.folderSeq <= MaxFolderSeq
    /\ out.w.docSeq <= MaxDocSeq
    /\ folders' = out.w.folders
    /\ docs' = out.w.docs
    /\ dirs' = out.w.dirs
    /\ files' = out.w.files
    /\ folderSeq' = out.w.folderSeq
    /\ docSeq' = out.w.docSeq
    /\ emitted' = out.ev
    /\ allOk' = (allOk /\ (out.ok \/ out.w = World))
    /\ calls' = IF out.w = World THEN calls ELSE calls + 1
    /\ calls' <= MaxCalls
    /\ UNCHANGED <<syncVars, threads, metaVars, lastIndexed, dimVars, pureVars, appVars, contents>>

CallCreateFolder(path) == Returns(create_folder(World, path))
CallRenameFolder(path, new_name) ==
    Returns(rename_folder(World, path, new_name))
CallMoveFolder(path, dest) == Returns(move_folder(World, path, dest))
CallRemoveFolder(path, force) == Returns(remove_folder(World, path, force))
CallCreateDoc(folder_path, name, sid) ==
    Returns(create_doc(World, folder_path, name, sid))
CallMoveDoc(doc_path, dest) == Returns(move_doc(World, doc_path, dest))
CallRenameDoc(doc_path, new_name) ==
    Returns(rename_doc(World, doc_path, new_name))
CallRemoveDoc(doc_path) == Returns(remove_doc(World, doc_path))
CallSetDocDescription(doc_path) == Returns(set_doc_description(World, doc_path))
CallGetDocMeta(doc_path) == Returns(get_doc_meta(World, doc_path))
CallGetDocContent(doc_path) == Returns(get_doc_content(World, doc_path))
CallSaveDocContent(doc_path) == Returns(save_doc_content(World, doc_path))
CallListFolders(all) == Returns(list_folders(World, all))
CallListDocs(folder_path, recursive) == Returns(list_docs(World, folder_path, recursive))

CreateFolder == \E path \in NewFolderInputs : CallCreateFolder(path)
RenameFolder == \E path \in FolderInputs : \E new_name \in FolderNameInputs :
                    CallRenameFolder(path, new_name)
MoveFolder == \E path \in FolderInputs : \E dest \in FolderInputs : CallMoveFolder(path, dest)
RemoveFolder == \E path \in FolderInputs : \E force \in BOOLEAN : CallRemoveFolder(path, force)
CreateDoc == \E folder_path \in FolderInputs : \E name \in DocNames \cup {<<>>, <<"x", "/", "y">>} :
             \E sid \in StableIdInputs :
                 CallCreateDoc(folder_path, name, sid)
MoveDoc == \E doc_path \in DocInputs : \E dest \in FolderInputs : CallMoveDoc(doc_path, dest)
RenameDoc == \E doc_path \in DocInputs : \E new_name \in DocNameInputs :
                 CallRenameDoc(doc_path, new_name)
RemoveDoc == \E doc_path \in DocInputs : CallRemoveDoc(doc_path)
SetDocDescription == \E doc_path \in DocInputs : CallSetDocDescription(doc_path)
GetDocMeta == \E doc_path \in DocInputs : CallGetDocMeta(doc_path)
GetDocContent == \E doc_path \in DocInputs : CallGetDocContent(doc_path)
SaveDocContent == \E doc_path \in DocInputs : CallSaveDocContent(doc_path)
ListFolders == \E all \in BOOLEAN : CallListFolders(all)
ListDocs == \E folder_path \in ListInputs : \E recursive \in BOOLEAN :
                CallListDocs(folder_path, recursive)

Next ==
    \/ CreateFolder
    \/ RenameFolder
    \/ MoveFolder
    \/ RemoveFolder
    \/ CreateDoc
    \/ MoveDoc
    \/ RenameDoc
    \/ RemoveDoc
    \/ SetDocDescription
    \/ GetDocMeta
    \/ GetDocContent
    \/ SaveDocContent
    \/ ListFolders
    \/ ListDocs

Spec == Init /\ [][Next]_vars

-----------------------------------------------------------------------------
(* The index: search/vector_store.rs, search/chunker.rs and search/indexer.rs. *)
(* One character of a text stands for one block of the file: " " for a blank    *)
(* line, "#" for a heading line, "[" followed by a character c for the marker   *)
(* line "[//]: # (idea:id=c created_at=...)" of an ideas file, any other        *)
(* character for a paragraph.  The texts hold no oc:// link.  Every vector the  *)
(* embedding API returns has embedding.vector_length elements.                  *)

\* the vector store as the indexer sees it
Index ==
    [table |-> tableExists, chunks |-> chunks, lance |-> lance, indexer |-> indexer,
     embedding |-> embedding]

\* the values of the variables after a call that leaves the index as ix
IndexBecomes(ix) ==
    /\ tableExists' = ix.table
    /\ chunks' = ix.chunks
    /\ lance' = ix.lance
    /\ indexer' = ix.indexer
    /\ embedding' = ix.embedding

IxOk(ix, ops) == [ok |-> TRUE, ix |-> ix, ops |-> ops]
IxErr(ix, ops) == [ok |-> FALSE, ix |-> ix, ops |-> ops]

\* usize::to_string
Digits == <<"0", "1", "2", "3", "4", "5", "6", "7", "8", "9">>
RECURSIVE to_string(_)
to_string(n) ==
    IF n < 10 THEN <<Digits[n + 1]>> ELSE to_string(n \div 10) \o <<Digits[(n % 10) + 1]>>

\* the blocks of a text, cut before every heading
RECURSIVE sections(_, _, _)
sections(content, current, acc) ==
    IF content = <<>> THEN Append(acc, current)
    ELSE IF Head(content) = "#" THEN sections(Tail(content), <<"#">>, Append(acc, current))
    ELSE sections(Tail(content), Append(current, Head(content)), acc)

\* Chunker::chunk: one TextChunk per section that has text
chunk(content) ==
    LET all == sections(content, <<>>, <<>>)
        kept == SelectSeq(all, LAMBDA s : Trim(s) # <<>>)
    IN [i \in 1..Len(kept) |-> [content |-> Trim(kept[i])]]

\* the entries of an ideas file: the text between one marker line and the next
RECURSIVE idea_entries(_, _, _, _)
idea_entries(content, current_id, buffer, entries) ==
    LET pushed == IF current_id = <<>> THEN entries
                  ELSE Append(entries, [id |-> current_id, content |-> Trim(buffer)])
    IN IF content = <<>> THEN pushed
       ELSE IF Head(content) = "[" /\ Len(content) >= 2
            THEN idea_entries(SubSeq(content, 3, Len(content)), <<content[2]>>, <<>>, pushed)
       ELSE idea_entries(Tail(content), current_id,
                         IF current_id = <<>> THEN buffer ELSE Append(buffer, Head(content)),
                         entries)

parse_idea_entries(content) == idea_entries(content, <<>>, <<>>, <<>>)

\* refs.is_empty(): the text is returned as it is
append_reference_summary(text) == text

\* the Vec<Chunk> index_file builds from one file
idea_chunks(rel_path, content) ==
    LET entries == parse_idea_entries(content)
    IN [i \in 1..Len(entries) |->
            [id |-> rel_path \o <<"#">> \o entries[i].id, file_path |-> rel_path,
             content |-> entries[i].content]]

text_chunks(rel_path, content) ==
    LET parts == chunk(content)
    IN [i \in 1..Len(parts) |->
            [id |-> rel_path \o <<"#">> \o to_string(i - 1), file_path |-> rel_path,
             content |-> parts[i].content]]

file_chunks(rel_path, content) ==
    IF StartsWith(rel_path, <<".", "i", "d", "e", "a", "s", "/">>)
    THEN idea_chunks(rel_path, content)
    ELSE text_chunks(rel_path, content)

\* the chunks build_all builds from one file: an idea entry gets its references trailer
doc_chunks(rel_path, content) ==
    LET built == file_chunks(rel_path, content)
    IN IF StartsWith(rel_path, <<".", "i", "d", "e", "a", "s", "/">>)
       THEN [i \in DOMAIN built |->
                 [built[i] EXCEPT !.content = append_reference_summary(@)]]
       ELSE built

\* the rows of a batch of chunks, each as often as the batch holds it
RECURSIVE Rows(_)
Rows(batch) ==
    IF batch = <<>> THEN EmptyBag ELSE SetToBag({Head(batch)}) (+) Rows(Tail(batch))

StOk(ix) == [ok |-> TRUE, ix |-> ix]
StErr(ix) == [ok |-> FALSE, ix |-> ix]

\* DELETE FROM chunks WHERE file_path = '...'; nothing to do without a table
delete_by_file(ix, file_path) ==
    IF ~ix.table THEN ix
    ELSE [ix EXCEPT !.chunks =
              [r \in {x \in DOMAIN ix.chunks : x.file_path # file_path} |-> ix.chunks[r]]]

\* VectorStore::new(path, dimensions) and initialize(): the table is opened when
\* the database holds one
reopened(ix, dimensions) ==
    [ix EXCEPT !.table = ix.lance.table,
               !.indexer.dimensions = dimensions,
               !.indexer.recreated = @ + 1]

\* chunks_to_batch builds the vector column at self.dimensions; then
\* create_table(batch) when there is no handle, table.add(batch) otherwise
upsert(ix, batch) ==
    IF batch = <<>> THEN StOk(ix)
    ELSE IF ix.embedding.vector_length # ix.indexer.dimensions THEN StErr(ix)
    ELSE IF ~ix.table
         THEN IF ix.lance.table THEN StErr(ix)
              ELSE StOk([ix EXCEPT !.table = TRUE,
                                   !.lance = [table |-> TRUE,
                                              dimensions |-> ix.indexer.dimensions],
                                   !.chunks = @ (+) Rows(batch)])
    ELSE IF ~ix.lance.table \/ ix.lance.dimensions # ix.indexer.dimensions THEN StErr(ix)
    ELSE StOk([ix EXCEPT !.chunks = @ (+) Rows(batch)])

\* a reset that keeps the rows
reset_keeps(ix) == ix

\* drop_table when there is a handle
reset(ix) ==
    IF ix.table
    THEN [ix EXCEPT !.table = FALSE, !.chunks = EmptyBag,
                    !.lance = [table |-> FALSE, dimensions |-> 0]]
    ELSE ix

\* count_rows, 0 without a table
count(ix) == IF ~ix.table THEN 0 ELSE BagCardinality(ix.chunks)

index_exists(ix) == ix.table

\* EmbeddingClient::embed: the first response sets actual_dimensions
embed(ix, embed_ok) ==
    IF ~embed_ok THEN StErr(ix)
    ELSE StOk([ix EXCEPT !.embedding.actual_dimensions =
                             IF @ = 0 THEN ix.embedding.vector_length ELSE @])

\* a verify_dimensions that keeps the store it has
verify_dimensions_keeps(ix) == [ix EXCEPT !.indexer.dimensions_verified = TRUE]

verify_dimensions(ix) ==
    LET actual_dim == ix.embedding.actual_dimensions
    IN IF ix.indexer.dimensions_verified THEN ix
       ELSE IF actual_dim > 0 /\ actual_dim # config_dimensions
            THEN [reopened(ix, actual_dim) EXCEPT !.indexer.dimensions_verified = TRUE]
       ELSE [ix EXCEPT !.indexer.dimensions_verified = TRUE]

\* text is what read_to_string returns, embed_ok whether the embedding call succeeds
index_file(ix, rel_path, text, embed_ok) ==
    LET cleared == delete_by_file(ix, rel_path)
        op == << <<"index_file", rel_path>> >>
        batch == file_chunks(rel_path, text)
        embedded == embed(cleared, embed_ok)
        verified == verify_dimensions(embedded.ix)
        stored == upsert(verified, batch)
    IN IF ~fs_exists(World, AbsJoin(rel_path)) THEN IxErr(ix, op)
       ELSE IF Trim(text) = <<>> THEN IxOk(cleared, op)
       ELSE IF batch = <<>> THEN IxOk(cleared, op)
       ELSE IF ~embedded.ok THEN IxErr(cleared, op)
       ELSE IF ~stored.ok THEN IxErr(verified, op)
       ELSE IxOk(stored.ix, op)

remove_file(ix, rel_path) ==
    IxOk(delete_by_file(ix, rel_path), << <<"remove_file", rel_path>> >>)

update_file_path(ix, old_path, new_path, text, embed_ok) ==
    LET removed == remove_file(ix, old_path)
        indexed == index_file(removed.ix, new_path, text, embed_ok)
    IN IF fs_exists(World, AbsJoin(new_path))
       THEN [indexed EXCEPT !.ops = removed.ops \o @]
       ELSE removed

\* docs.chunks(batch_size): let batch_size = 10, scaled to the lists of the model
batch_size == 2

\* the chunks of the documents of one batch whose file is not blank
RECURSIVE batch_chunks(_, _)
batch_chunks(batch, texts) ==
    IF batch = <<>> THEN <<>>
    ELSE (IF Trim(texts[Head(batch)]) = <<>> THEN <<>>
          ELSE doc_chunks(Head(batch), texts[Head(batch)]))
         \o batch_chunks(Tail(batch), texts)

\* no embedding call and no upsert of the build fails
NoFault == [embed |-> 0, upsert |-> 0]

\* a build that goes on with the next batch after an error
RECURSIVE build_batches_continues(_, _, _, _, _)
build_batches_continues(ix, paths, texts, fault, sofar) ==
    LET n == IF Len(paths) < batch_size THEN Len(paths) ELSE batch_size
        batch == SubSeq(paths, 1, n)
        rest == SubSeq(paths, n + 1, Len(paths))
        k == sofar.batch + 1
        all_chunks == batch_chunks(batch, texts)
        embedded == embed(ix, fault.embed # k)
        verified == verify_dimensions(embedded.ix)
        stored == upsert(verified, all_chunks)
        chunking == [sofar EXCEPT !.batch = k, !.progress = @ \o << <<"chunking", k>> >>]
    IN IF paths = <<>>
       THEN [sofar EXCEPT !.ix = ix, !.progress = @ \o << <<"done", sofar.batch>> >>]
       ELSE IF \/ \E i \in DOMAIN batch : ~fs_exists(World, AbsJoin(batch[i]))
               \/ all_chunks # <<>> /\ (~embedded.ok \/ fault.upsert = k \/ ~stored.ok)
            THEN build_batches_continues(ix, rest, texts, fault, [chunking EXCEPT !.ok = FALSE])
       ELSE build_batches_continues(stored.ix, rest, texts, fault,
                                    [chunking EXCEPT !.total_chunks = @ + Len(all_chunks)])

\* the for loop over the batches; texts[p] is what read_to_string returns for p,
\* fault names the batch whose embedding call or upsert fails (0 for none); sofar
\* holds total_chunks, the progress reported and the number of the batch reached
RECURSIVE build_batches(_, _, _, _, _)
build_batches(ix, paths, texts, fault, sofar) ==
    LET n == IF Len(paths) < batch_size THEN Len(paths) ELSE batch_size
        batch == SubSeq(paths, 1, n)
        rest == SubSeq(paths, n + 1, Len(paths))
        k == sofar.batch + 1
        all_chunks == batch_chunks(batch, texts)
        embedded == embed(ix, fault.embed # k)
        verified == verify_dimensions(embedded.ix)
        stored == upsert(verified, all_chunks)
        chunking == [sofar EXCEPT !.batch = k, !.progress = @ \o << <<"chunking", k>> >>]
        embedding_ == [chunking EXCEPT !.progress = @ \o << <<"embedding", k>> >>]
        storing == [embedding_ EXCEPT !.progress = @ \o << <<"storing", k>> >>]
    IN IF paths = <<>>
       THEN [sofar EXCEPT !.ix = ix, !.progress = @ \o << <<"done", sofar.batch>> >>]
       ELSE IF \E i \in DOMAIN batch : ~fs_exists(World, AbsJoin(batch[i]))
            THEN [chunking EXCEPT !.ok = FALSE, !.ix = ix]
       ELSE IF all_chunks = <<>> THEN build_batches(ix, rest, texts, fault, chunking)
       ELSE IF ~embedded.ok THEN [embedding_ EXCEPT !.ok = FALSE, !.ix = ix]
       ELSE IF fault.upsert = k \/ ~stored.ok THEN [storing EXCEPT !.ok = FALSE, !.ix = verified]
       ELSE build_batches(stored.ix, rest, texts, fault,
                          [storing EXCEPT !.total_chunks = @ + Len(all_chunks)])

\* build_all(docs): paths are the rel_path of the docs, in order
build_all(ix, paths, texts, fault) ==
    LET cleared == reset(ix)
    IN build_batches(cleared, paths, texts, fault,
                     [ok |-> TRUE, ix |-> cleared, total_chunks |-> 0, progress |-> <<>>,
                      batch |-> 0])

\* IndexStats of get_stats
get_stats(ix) == [total_docs |-> 0, total_chunks |-> count(ix)]

-----------------------------------------------------------------------------
(* The index synchronisation service: search/index_sync.rs *)

\* IndexAction
Update(rel_path) == [kind |-> "Update", rel_path |-> rel_path]
Remove(rel_path) == [kind |-> "Remove", rel_path |-> rel_path]
Rename(old_path, new_path) == [kind |-> "Rename", old_path |-> old_path, new_path |-> new_path]

\* Event: DocEvent and FolderEvent
DocCreated(rel_path) == [type |-> "DocCreated", rel_path |-> rel_path]
DocUpdated(rel_path) == [type |-> "DocUpdated", rel_path |-> rel_path]
DocDeleted(rel_path) == [type |-> "DocDeleted", rel_path |-> rel_path]
DocRenamed(old_path, new_path) ==
    [type |-> "DocRenamed", old_path |-> old_path, new_path |-> new_path]
DocMoved(old_path, new_path) ==
    [type |-> "DocMoved", old_path |-> old_path, new_path |-> new_path]
FolderCreated(rel_path) == [type |-> "FolderCreated", rel_path |-> rel_path]
FolderRenamed(old_path, new_path, affected_docs) ==
    [type |-> "FolderRenamed", old_path |-> old_path, new_path |-> new_path,
     affected_docs |-> affected_docs]
FolderDeleted(rel_path, removed_docs) ==
    [type |-> "FolderDeleted", rel_path |-> rel_path, removed_docs |-> removed_docs]

\* an event_to_actions without the arms of the folder events
event_to_actions_of_docs(event) ==
    IF event.type \in {"DocCreated", "DocUpdated"} THEN << Update(event.rel_path) >>
    ELSE IF event.type = "DocDeleted" THEN << Remove(event.rel_path) >>
    ELSE IF event.type \in {"DocRenamed", "DocMoved"}
         THEN << Rename(event.old_path, event.new_path) >>
    ELSE <<>>

event_to_actions(event) ==
    IF event.type \in {"DocCreated", "DocUpdated"} THEN << Update(event.rel_path) >>
    ELSE IF event.type = "DocDeleted" THEN << Remove(event.rel_path) >>
    ELSE IF event.type \in {"DocRenamed", "DocMoved"}
         THEN << Rename(event.old_path, event.new_path) >>
    ELSE IF event.type = "FolderCreated" THEN <<>>
    ELSE IF event.type \in {"FolderRenamed", "FolderMoved"}
         THEN [i \in 1..Len(event.affected_docs) |->
                   Rename(event.affected_docs[i][1], event.affected_docs[i][2])]
    ELSE [i \in 1..Len(event.removed_docs) |-> Remove(event.removed_docs[i])]

\* HashMap::insert and HashMap::remove
MapInsert(m, k, v) == [x \in DOMAIN m \cup {k} |-> IF x = k THEN v ELSE m[x]]
MapRemove(m, k) == [x \in DOMAIN m \ {k} |-> m[x]]
MapValues(m) == {m[k] : k \in DOMAIN m}

\* a for loop body whose Rename branch leaves the old key in the map
insert_action_keeps_old(pending_guard, action) ==
    IF action.kind = "Rename" THEN MapInsert(pending_guard, action.new_path, action)
    ELSE MapInsert(pending_guard, action.rel_path, action)

\* the body of the listener's for loop, for one action
insert_action(pending_guard, action) ==
    IF action.kind = "Update" THEN MapInsert(pending_guard, action.rel_path, action)
    ELSE IF action.kind = "Remove" THEN MapInsert(pending_guard, action.rel_path, action)
    ELSE MapInsert(MapRemove(pending_guard, action.old_path), action.new_path, action)

\* the listener's for loop over the actions of one event
RECURSIVE insert_actions(_, _)
insert_actions(pending_guard, acts) ==
    IF acts = <<>> THEN pending_guard
    ELSE insert_actions(insert_action(pending_guard, Head(acts)), Tail(acts))

\* one drained action, executed by the flush loop
execute_action(ix, action, text, embed_ok) ==
    IF action.kind = "Update" THEN index_file(ix, action.rel_path, text, embed_ok)
    ELSE IF action.kind = "Remove" THEN remove_file(ix, action.rel_path)
    ELSE update_file_path(ix, action.old_path, action.new_path, text, embed_ok)

(* The documents the events are about *)

SyncFolders == {<<"a">>, <<"b">>}
SyncDocNames == {<<"x">>, <<"y">>}
SyncDocPaths == {Slash(f, n) : f \in SyncFolders, n \in SyncDocNames}

\* the documents on the filesystem, by relative path
DocFiles == {p \in SyncDocPaths : AbsJoin(p) \in files}
DocFilesIn(f) == {p \in DocFiles : parent_rel_path(p) = f}

\* a set of paths as a sequence, in the order of the names
RECURSIVE PathSeq(_)
PathSeq(S) ==
    IF S = {} THEN <<>>
    ELSE LET least == CHOOSE p \in S : \A q \in S : LastSegment(p) = <<"x">> \/ LastSegment(q) # <<"x">>
         IN <<least>> \o PathSeq(S \ {least})

\* what file_content of a document may read as
FileTexts == {<<" ">>, <<"t">>}

\* the events the catalog can publish with the filesystem as it is; every folder
\* event carries the documents of its folder
DocEventsNow ==
    {DocCreated(p) : p \in {q \in SyncDocPaths : parent_rel_path(q) = <<"a">>} \ DocFiles}
    \cup {DocUpdated(p) : p \in DocFiles}
    \cup {DocDeleted(p) : p \in DocFiles}
    \cup UNION {{DocRenamed(p, q) :
                    q \in {r \in SyncDocPaths \ DocFiles :
                               parent_rel_path(r) = parent_rel_path(p)}} : p \in DocFiles}

FolderEventsNow ==
    {FolderCreated(<<"b">>)}
    \cup {FolderRenamed(f, g,
              [i \in 1..Len(PathSeq(DocFilesIn(f))) |->
                   <<PathSeq(DocFilesIn(f))[i], Rebase(PathSeq(DocFilesIn(f))[i], f, g)>>]) :
              f \in {h \in SyncFolders : DocFilesIn(h) # {}},
              g \in {h \in SyncFolders : DocFilesIn(h) = {}}}
    \cup {FolderDeleted(f, PathSeq(DocFilesIn(f))) : f \in {h \in SyncFolders : DocFilesIn(h) # {}}}

\* the document files after the catalog call that publishes event
DocFilesAfter(event) ==
    IF event.type = "DocCreated" THEN DocFiles \cup {event.rel_path}
    ELSE IF event.type = "DocDeleted" THEN DocFiles \ {event.rel_path}
    ELSE IF event.type \in {"DocRenamed", "DocMoved"}
         THEN (DocFiles \ {event.old_path}) \cup {event.new_path}
    ELSE IF event.type = "FolderRenamed"
         THEN {p \in DocFiles : parent_rel_path(p) # event.old_path}
              \cup {Rebase(p, event.old_path, event.new_path) : p \in DocFilesIn(event.old_path)}
    ELSE IF event.type = "FolderDeleted"
         THEN {p \in DocFiles : parent_rel_path(p) # event.rel_path}
    ELSE DocFiles

\* A catalog call publishes event and the listener loop receives it: dropped when
\* the service is disabled, folded into pending_actions otherwise.
OnEvent(event) ==
    /\ eventCount < MaxEvents
    /\ eventCount' = eventCount + 1
    /\ files' = {AbsJoin(p) : p \in DocFilesAfter(event)}
    /\ dirs' = {contexts_root} \cup {AbsJoin(parent_rel_path(p)) : p \in DocFilesAfter(event)}
    /\ IF ~enabled
       THEN UNCHANGED <<pending_actions, received>>
       ELSE /\ pending_actions' = insert_actions(pending_actions, event_to_actions(event))
            /\ received' = Append(received, event)
    /\ UNCHANGED <<folders, docs, folderSeq, docSeq, emitted, allOk, calls>>
    /\ UNCHANGED <<enabled, flushPc, actions, drained, drainedFrom, executed, indexerCalls,
                   success_count, error_count, metadataUpdated, tableExists, chunks, threads, metaVars, lastIndexed, dimVars, pureVars, appVars, contents>>

DocEvent == \E event \in DocEventsNow : OnEvent(event)
FolderEvent == \E event \in FolderEventsNow : OnEvent(event)

\* set_enabled
SetEnabled ==
    /\ enabled' = ~enabled
    /\ UNCHANGED <<catalogVars, pending_actions, received, eventCount, flushPc, actions, drained,
                   drainedFrom, executed, indexerCalls, success_count, error_count,
                   metadataUpdated, tableExists, chunks, threads, metaVars, lastIndexed, dimVars, pureVars, appVars, contents>>

\* a tick without the test of the enabled flag
Tick_when_disabled ==
    /\ flushPc = "idle"
    /\ pending_actions # <<>>
    /\ pending_actions' = <<>>
    /\ received' = <<>>
    /\ drained' = pending_actions
    /\ drainedFrom' = received
    /\ executed' = <<>>
    /\ indexerCalls' = <<>>
    /\ success_count' = 0
    /\ error_count' = 0
    /\ metadataUpdated' = FALSE
    /\ IF index_exists(Index)
       THEN flushPc' = "executing" /\ actions' = MapValues(pending_actions)
       ELSE flushPc' = "idle" /\ actions' = {}
    /\ UNCHANGED <<catalogVars, enabled, eventCount, tableExists, chunks, threads, metaVars, lastIndexed, dimVars, pureVars, appVars, contents>>

\* a tick that collects the pending actions but leaves them in the map
Tick_leaves_pending ==
    /\ flushPc = "idle"
    /\ enabled
    /\ pending_actions # <<>>
    /\ drained' = pending_actions
    /\ drainedFrom' = received
    /\ executed' = <<>>
    /\ indexerCalls' = <<>>
    /\ success_count' = 0
    /\ error_count' = 0
    /\ metadataUpdated' = FALSE
    /\ IF index_exists(Index)
       THEN flushPc' = "executing" /\ actions' = MapValues(pending_actions)
       ELSE flushPc' = "idle" /\ actions' = {}
    /\ UNCHANGED <<catalogVars, enabled, pending_actions, received, eventCount, tableExists,
                   chunks, threads, metaVars, lastIndexed, dimVars, pureVars, appVars, contents>>

\* process_pending_interval, from the tick to the for loop: nothing when disabled or
\* when nothing is pending; the drained actions are dropped when there is no index
Tick ==
    /\ flushPc = "idle"
    /\ enabled
    /\ pending_actions # <<>>
    /\ pending_actions' = <<>>
    /\ received' = <<>>
    /\ drained' = pending_actions
    /\ drainedFrom' = received
    /\ executed' = <<>>
    /\ indexerCalls' = <<>>
    /\ success_count' = 0
    /\ error_count' = 0
    /\ metadataUpdated' = FALSE
    /\ IF index_exists(Index)
       THEN flushPc' = "executing" /\ actions' = MapValues(pending_actions)
       ELSE flushPc' = "idle" /\ actions' = {}
    /\ UNCHANGED <<catalogVars, enabled, eventCount, tableExists, chunks, threads, metaVars, lastIndexed, dimVars, pureVars, appVars, contents>>

\* a for loop that ends at the first action that returns Err
ExecuteAction_stops_at_error ==
    /\ flushPc = "executing"
    /\ \E action \in actions : \E text \in FileTexts : \E embed_ok \in BOOLEAN :
           LET result == execute_action(Index, action, text, embed_ok)
           IN /\ actions' = IF result.ok THEN actions \ {action} ELSE {}
              /\ IndexBecomes(result.ix)
              /\ executed' = Append(executed, action)
              /\ indexerCalls' = indexerCalls \o result.ops
              /\ success_count' = IF result.ok THEN success_count + 1 ELSE success_count
              /\ error_count' = IF result.ok THEN error_count ELSE error_count + 1
    /\ UNCHANGED <<catalogVars, enabled, pending_actions, received, eventCount, flushPc, drained,
                   drainedFrom, metadataUpdated, threads, metaVars, lastIndexed, pureVars, appVars, contents>>

\* one iteration of the for loop; drain() yields the actions in no particular order
ExecuteAction ==
    /\ flushPc = "executing"
    /\ \E action \in actions : \E text \in FileTexts : \E embed_ok \in BOOLEAN :
           LET result == execute_action(Index, action, text, embed_ok)
           IN /\ actions' = actions \ {action}
              /\ IndexBecomes(result.ix)
              /\ executed' = Append(executed, action)
              /\ indexerCalls' = indexerCalls \o result.ops
              /\ success_count' = IF result.ok THEN success_count + 1 ELSE success_count
              /\ error_count' = IF result.ok THEN error_count ELSE error_count + 1
    /\ UNCHANGED <<catalogVars, enabled, pending_actions, received, eventCount, flushPc, drained,
                   drainedFrom, metadataUpdated, threads, metaVars, lastIndexed, pureVars, appVars, contents>>

\* after the for loop: update_metadata once if anything succeeded, then back to the
\* ticker; the loop's locals and the record of the flush go out of scope
FinishFlush ==
    /\ flushPc = "executing"
    /\ actions = {}
    /\ flushPc' = "idle"
    /\ metadataUpdated' = (success_count > 0)
    /\ drained' = <<>>
    /\ drainedFrom' = <<>>
    /\ executed' = <<>>
    /\ indexerCalls' = <<>>
    /\ success_count' = 0
    /\ error_count' = 0
    /\ UNCHANGED <<catalogVars, enabled, pending_actions, received, eventCount, actions,
                   tableExists, chunks, threads, metaVars, lastIndexed, dimVars, pureVars, appVars, contents>>

\* the service starts on a contexts root without documents, with or without a table
SyncInit ==
    /\ CatalogInit
    /\ SyncServiceInit
    /\ tableExists \in BOOLEAN
    /\ lance = LanceOf(tableExists)
    /\ given = <<>>
    /\ returned = <<>>
    /\ build = NoBuild
    /\ node = NoNode
    /\ contents = <<>>
    /\ threads = NoThreads
    /\ NoMeta

SyncNext ==
    \/ DocEvent
    \/ FolderEvent
    \/ SetEnabled
    \/ Tick
    \/ ExecuteAction
    \/ FinishFlush

SyncSpec == SyncInit /\ [][SyncNext]_vars

-----------------------------------------------------------------------------
(* Two calls in progress on one OpenContext.  with_conn takes the connection *)
(* mutex for one closure only, so a call is a sequence of steps: each store  *)
(* access and each filesystem call is one step, and the steps of two calls   *)
(* interleave.                                                               *)

EmptyWorld ==
    [folders |-> {}, docs |-> {}, dirs |-> {contexts_root}, files |-> {},
     folderSeq |-> 0, docSeq |-> 0]

\* the catalog after create_folder("a")
ConcWorld0 == create_folder(EmptyWorld, <<"a">>).w

\* the calls a thread may make
ConcCalls ==
    {[op |-> "create_doc", folder_path |-> <<"a">>, name |-> <<"x">>],
     [op |-> "rename_folder", path |-> <<"a">>, new_name |-> <<"b">>]}

\* the whole call, as one thread alone runs it; thread t draws stable id t
RunCall(w, call, t) ==
    IF call.op = "create_doc" THEN create_doc(w, call.folder_path, call.name, t)
    ELSE rename_folder(w, call.path, call.new_name)

\* the state becomes w
Becomes(w) ==
    /\ folders' = w.folders
    /\ docs' = w.docs
    /\ dirs' = w.dirs
    /\ files' = w.files
    /\ folderSeq' = w.folderSeq
    /\ docSeq' = w.docSeq

\* thread t goes on to pc, or returns ok
Goto(t, pc) == threads' = [threads EXCEPT ![t].pc = pc]
Return(t, ok) == threads' = [threads EXCEPT ![t].pc = "done", ![t].ok = ok]

\* self.find_folder(..) at the head of create_doc and rename_folder
FindFolder(t) ==
    /\ threads[t].pc = "idle"
    /\ \E call \in ConcCalls :
           LET rel_path == normalize_folder_path(
                               IF call.op = "create_doc" THEN call.folder_path ELSE call.path)
               folder == find_folder(World, rel_path)
               parent_path == parent_rel_path(rel_path)
               target == IF call.op = "create_doc"
                         THEN (IF folder.rel_path = <<>> THEN call.name
                               ELSE Slash(folder.rel_path, call.name))
                         ELSE (IF parent_path # None /\ parent_path # <<>>
                               THEN Slash(parent_path, call.new_name) ELSE call.new_name)
           IN threads' = [threads EXCEPT ![t] =
                  IF folder.id = 0
                  THEN [pc |-> "done", call |-> call, ok |-> FALSE,
                        stored |-> 0, published |-> 0]
                  ELSE [pc |-> "find_target", call |-> call, ok |-> FALSE,
                        folder |-> folder, target |-> target, affected |-> <<>>,
                        stored |-> 0, published |-> 0]]
    /\ UNCHANGED <<catalogVars, syncVars, metaVars, lastIndexed, dimVars, pureVars, appVars, contents>>

\* self.find_doc(&rel_path) in create_doc, self.find_folder(&new_rel_path) in rename_folder
FindTarget(t) ==
    /\ threads[t].pc = "find_target"
    /\ LET taken == IF threads[t].call.op = "create_doc"
                    THEN find_doc(World, threads[t].target).id # 0
                    ELSE find_folder(World, threads[t].target).id # 0
       IN IF taken THEN Return(t, FALSE) ELSE Goto(t, "create_dir_all")
    /\ UNCHANGED <<catalogVars, syncVars, metaVars, lastIndexed, dimVars, pureVars, appVars, contents>>

\* fs::create_dir_all(parent)
CreateDirAll(t) ==
    /\ threads[t].pc = "create_dir_all"
    /\ LET made == create_dir_all(World, FsParent(AbsJoin(threads[t].target)))
       IN /\ Becomes(made.w)
          /\ IF made.ok THEN Goto(t, "fs") ELSE Return(t, FALSE)
    /\ UNCHANGED <<emitted, allOk, calls, syncVars, metaVars, lastIndexed, dimVars, pureVars, appVars, contents>>

\* fs::write(&abs_path, "") in create_doc, fs::rename(&folder.abs_path, &new_abs_path)
\* in rename_folder
FsMutation(t) ==
    /\ threads[t].pc = "fs"
    /\ LET abs_path == AbsJoin(threads[t].target)
           done == IF threads[t].call.op = "create_doc"
                   THEN fs_write(World, abs_path)
                   ELSE fs_rename(World, threads[t].folder.abs_path, abs_path)
       IN /\ Becomes(done.w)
          /\ IF ~done.ok THEN Return(t, FALSE)
             ELSE IF threads[t].call.op = "create_doc" THEN Goto(t, "store")
             ELSE Goto(t, "select")
    /\ UNCHANGED <<emitted, allOk, calls, syncVars, metaVars, lastIndexed, dimVars, pureVars, appVars, contents>>

\* rename_folder: the SELECT of the affected doc paths, in its own with_conn
SelectAffected(t) ==
    /\ threads[t].pc = "select"
    /\ threads' = [threads EXCEPT
           ![t].pc = "store",
           ![t].affected = PathsOf(SortById(docs_like(World, threads[t].folder.rel_path)))]
    /\ UNCHANGED <<catalogVars, syncVars, metaVars, lastIndexed, dimVars, pureVars, appVars, contents>>

\* how many calls have completed their store write
StoredCount ==
    Cardinality({u \in DOMAIN threads : threads[u].pc \in {"emit", "done"}
                                        /\ threads[u].stored > 0})

\* the event the call publishes once its store write has succeeded
EventOf(t) ==
    IF threads[t].call.op = "create_doc"
    THEN [type |-> "DocCreated", rel_path |-> threads[t].target]
    ELSE [type |-> "FolderRenamed", old_path |-> threads[t].folder.rel_path,
          new_path |-> threads[t].target,
          affected_docs |-> affected_pairs(threads[t].affected, threads[t].folder.rel_path,
                                           threads[t].target)]

\* the INSERT of create_doc, the transaction of rename_folder: one with_conn
\* closure, after which the connection mutex is released
StoreWrite(t) ==
    /\ threads[t].pc = "store"
    /\ LET call == threads[t].call
           folder == threads[t].folder
           target == threads[t].target
           written ==
               IF call.op = "create_doc"
               THEN insert_doc(World, folder.id, call.name, target, AbsJoin(target), t)
               ELSE subtree_tx(World, folder,
                               [folder EXCEPT !.name = call.new_name, !.rel_path = target,
                                              !.abs_path = AbsJoin(target)],
                               target)
       IN /\ Becomes(written.w)
          /\ IF written.ok
             THEN threads' = [threads EXCEPT ![t].pc = "emit", ![t].stored = StoredCount + 1]
             ELSE Return(t, FALSE)
    /\ UNCHANGED <<emitted, allOk, calls, syncVars, metaVars, lastIndexed, dimVars, pureVars, appVars, contents>>

\* self.emit_doc_event(..) / self.emit_folder_event(..), the last statement of
\* the call, outside any with_conn
Emit(t) ==
    /\ threads[t].pc = "emit"
    /\ emitted' = Append(emitted, EventOf(t))
    /\ threads' = [threads EXCEPT ![t].pc = "done", ![t].ok = TRUE,
                                  ![t].published = Len(emitted) + 1]
    /\ UNCHANGED <<folders, docs, dirs, files, folderSeq, docSeq, allOk, calls, syncVars,
                   metaVars, lastIndexed, dimVars, pureVars, appVars, contents>>

ConcInit ==
    /\ folders = ConcWorld0.folders
    /\ docs = ConcWorld0.docs
    /\ dirs = ConcWorld0.dirs
    /\ files = ConcWorld0.files
    /\ folderSeq = ConcWorld0.folderSeq
    /\ docSeq = ConcWorld0.docSeq
    /\ emitted = <<>>
    /\ allOk = TRUE
    /\ calls = 0
    /\ SyncServiceInit
    /\ tableExists = FALSE
    /\ lance = LanceOf(tableExists)
    /\ given = <<>>
    /\ returned = <<>>
    /\ build = NoBuild
    /\ node = NoNode
    /\ contents = <<>>
    /\ threads = NoThreads
    /\ NoMeta

ConcFindFolder == \E t \in DOMAIN threads : FindFolder(t)
ConcFindTarget == \E t \in DOMAIN threads : FindTarget(t)
ConcCreateDirAll == \E t \in DOMAIN threads : CreateDirAll(t)
ConcFsMutation == \E t \in DOMAIN threads : FsMutation(t)
ConcSelectAffected == \E t \in DOMAIN threads : SelectAffected(t)
ConcStoreWrite == \E t \in DOMAIN threads : StoreWrite(t)
ConcEmit == \E t \in DOMAIN threads : Emit(t)

ConcNext ==
    \/ ConcFindFolder
    \/ ConcFindTarget
    \/ ConcCreateDirAll
    \/ ConcFsMutation
    \/ ConcSelectAffected
    \/ ConcStoreWrite
    \/ ConcEmit

ConcSpec == ConcInit /\ [][ConcNext]_vars

-----------------------------------------------------------------------------
(* The description and updated_at columns.  Each operator is the public     *)
(* method again, now with the description the caller passes and the value   *)
(* ts that now_iso() returns to the call; it yields the method's outcome,   *)
(* the two columns of every row after the call, and the ids of the rows the *)
(* call's statements wrote.                                                 *)

\* milliseconds the clock may show
MaxClock == 1
\* calls in one run that change the store, the filesystem or a column
MetaMaxCalls == 3

\* description arguments; <<>> is ""
Descriptions == {<<>>, <<"d">>}

\* the columns as the call finds them
Meta == [folders |-> folderMeta, docs |-> docMeta]

\* Utc::now() at millisecond resolution: later calls never read an earlier
\* value, but two calls within one millisecond read the same one
now_iso == clock..MaxClock

\* The columns after the statements that took the table from before to after:
\* every INSERT and UPDATE of lib.rs binds updated_at to ts, an INSERT that
\* names no description stores '', a DELETE removes the row.
touch(meta, before, after, ts) ==
    LET written == {r.id : r \in after \ before}
    IN [id \in {r.id : r \in after} |->
           IF id \in written
           THEN [description |-> IF id \in DOMAIN meta THEN meta[id].description ELSE <<>>,
                 updated_at |-> ts]
           ELSE meta[id]]

\* SET description = ?1, updated_at = ?2 on the row id
describe(meta, id, description, ts) ==
    [meta EXCEPT ![id] = [description |-> description, updated_at |-> ts]]

stamped(m, w, out, ts) ==
    [out |-> out,
     folders |-> touch(m.folders, w.folders, out.w.folders, ts),
     docs |-> touch(m.docs, w.docs, out.w.docs, ts),
     written_folders |-> {r.id : r \in out.w.folders \ w.folders},
     written_docs |-> {r.id : r \in out.w.docs \ w.docs}]

\* create_folder that leaves the description column of the folder alone
create_folder_at_keeps(m, w, path, description, ts) ==
    stamped(m, w, create_folder(w, path), ts)

\* the existing-folder branch runs update_folder_description, the other one
\* inserts the row with the description given
create_folder_at(m, w, path, description, ts) ==
    LET out == create_folder(w, path)
        s == stamped(m, w, out, ts)
        folder == find_folder(out.w, normalize_folder_path(path))
    IN IF ~out.ok THEN s
       ELSE [s EXCEPT !.folders = describe(@, folder.id, description, ts),
                      !.written_folders = @ \cup {folder.id}]

rename_folder_at(m, w, path, new_name, ts) == stamped(m, w, rename_folder(w, path, new_name), ts)

move_folder_at(m, w, path, dest, ts) == stamped(m, w, move_folder(w, path, dest), ts)

remove_folder_at(m, w, path, force) == stamped(m, w, remove_folder(w, path, force), 0)

create_doc_at(m, w, folder_path, name, sid, description, ts) ==
    LET out == create_doc(w, folder_path, name, sid)
        s == stamped(m, w, out, ts)
    IN IF ~out.ok THEN s
       ELSE [s EXCEPT !.docs = describe(@, find_doc(out.w, out.ret[1]).id, description, ts)]

move_doc_at(m, w, doc_path, dest, ts) == stamped(m, w, move_doc(w, doc_path, dest), ts)

rename_doc_at(m, w, doc_path, new_name, ts) == stamped(m, w, rename_doc(w, doc_path, new_name), ts)

remove_doc_at(m, w, doc_path) == stamped(m, w, remove_doc(w, doc_path), 0)

set_doc_description_at(m, w, doc_path, description, ts) ==
    LET out == set_doc_description(w, doc_path)
        s == stamped(m, w, out, ts)
        doc == find_doc(w, out.ret)
    IN IF ~out.ok THEN s
       ELSE [s EXCEPT !.docs = describe(@, doc.id, description, ts),
                      !.written_docs = @ \cup {doc.id}]

\* description is None or Some(desc): the UPDATE names the description
\* column only for Some
save_doc_content_at(m, w, doc_path, description, ts) ==
    LET out == save_doc_content(w, doc_path)
        s == stamped(m, w, out, ts)
        doc == find_doc(w, out.ret)
        desc == IF description = None THEN m.docs[doc.id].description ELSE description
    IN IF ~out.ok THEN s
       ELSE [s EXCEPT !.docs = describe(@, doc.id, desc, ts),
                      !.written_docs = @ \cup {doc.id}]

\* sync_updated_at_from_fs and the UPDATE that follows it: the file's mtime
\* replaces updated_at when the two differ; nothing when the file is missing
sync_updated_at(m, w, out, doc, mtime) ==
    LET s == stamped(m, w, out, 0)
    IN IF doc.id = 0 \/ doc.abs_path \notin w.files
          \/ mtime = m.docs[doc.id].updated_at THEN s
       ELSE [s EXCEPT !.docs[doc.id].updated_at = mtime,
                      !.written_docs = @ \cup {doc.id}]

get_doc_meta_at(m, w, doc_path, mtime) ==
    sync_updated_at(m, w, get_doc_meta(w, doc_path),
                    find_doc(w, normalize_doc_path(doc_path)), mtime)

get_doc_content_at(m, w, doc_path, mtime) ==
    sync_updated_at(m, w, get_doc_content(w, doc_path),
                    find_doc(w, normalize_doc_path(doc_path)), mtime)

\* the catalog after create_folder("a") and create_doc("a", "x") at time 0
MetaStart ==
    [out |-> [w |-> [folders |-> {[id |-> 1, parent_id |-> 0, name |-> <<"a">>,
                                   rel_path |-> <<"a">>, abs_path |-> <<"~", "/", "a">>]},
                     docs |-> {[id |-> 1, folder_id |-> 1, name |-> <<"x">>,
                                rel_path |-> <<"a", "/", "x">>,
                                abs_path |-> <<"~", "/", "a", "/", "x">>, stable_id |-> 1]},
                     dirs |-> {<<"~">>, <<"~", "/", "a">>},
                     files |-> {<<"~", "/", "a", "/", "x">>},
                     folderSeq |-> 1, docSeq |-> 1]],
     folders |-> <<[description |-> <<>>, updated_at |-> 0]>>,
     docs |-> <<[description |-> <<>>, updated_at |-> 0]>>]

MetaInit ==
    /\ folders = MetaStart.out.w.folders
    /\ docs = MetaStart.out.w.docs
    /\ dirs = MetaStart.out.w.dirs
    /\ files = MetaStart.out.w.files
    /\ folderSeq = MetaStart.out.w.folderSeq
    /\ docSeq = MetaStart.out.w.docSeq
    /\ emitted = <<>>
    /\ allOk = TRUE
    /\ calls = 0
    /\ SyncServiceInit
    /\ tableExists = FALSE
    /\ lance = LanceOf(tableExists)
    /\ given = <<>>
    /\ returned = <<>>
    /\ build = NoBuild
    /\ node = NoNode
    /\ contents = <<>>
    /\ threads = NoThreads
    /\ clock = 0
    /\ folderMeta = MetaStart.folders
    /\ docMeta = MetaStart.docs

\* the call returns s, having read ts from the clock if it read it at all
MetaReturns(s, ts) ==
    LET same == s.out.w = World /\ s.folders = folderMeta /\ s.docs = docMeta
    IN /\ s.out.w.folderSeq <= MaxFolderSeq
       /\ s.out.w.docSeq <= MaxDocSeq
       /\ folders' = s.out.w.folders
       /\ docs' = s.out.w.docs
       /\ dirs' = s.out.w.dirs
       /\ files' = s.out.w.files
       /\ folderSeq' = s.out.w.folderSeq
       /\ docSeq' = s.out.w.docSeq
       /\ emitted' = s.out.ev
       /\ allOk' = (allOk /\ (s.out.ok \/ s.out.w = World))
       /\ folderMeta' = s.folders
       /\ docMeta' = s.docs
       /\ clock' = IF same THEN clock ELSE ts
       /\ calls' = IF same THEN calls ELSE calls + 1
       /\ calls' <= MetaMaxCalls
       /\ UNCHANGED <<syncVars, threads, lastIndexed, dimVars, pureVars, appVars, contents>>

\* the outcomes of the calls that write a row, for the inputs of the model
CreateFolderOutcomes(ts) ==
    {create_folder_at(Meta, World, path, description, ts) :
        path \in NewFolderInputs, description \in Descriptions}
RenameFolderOutcomes(ts) ==
    {rename_folder_at(Meta, World, path, new_name, ts) :
        path \in FolderInputs, new_name \in FolderNameInputs}
MoveFolderOutcomes(ts) ==
    {move_folder_at(Meta, World, path, dest, ts) : path \in FolderInputs, dest \in FolderInputs}
CreateDocOutcomes(ts) ==
    {create_doc_at(Meta, World, folder_path, name, sid, description, ts) :
        folder_path \in FolderInputs, name \in DocNames, sid \in StableIdInputs,
        description \in Descriptions}
MoveDocOutcomes(ts) ==
    {move_doc_at(Meta, World, doc_path, dest, ts) : doc_path \in DocInputs, dest \in FolderInputs}
RenameDocOutcomes(ts) ==
    {rename_doc_at(Meta, World, doc_path, new_name, ts) :
        doc_path \in DocInputs, new_name \in DocNameInputs}
SetDocDescriptionOutcomes(ts) ==
    {set_doc_description_at(Meta, World, doc_path, description, ts) :
        doc_path \in DocInputs, description \in Descriptions}
SaveDocContentOutcomes(ts) ==
    {save_doc_content_at(Meta, World, doc_path, description, ts) :
        doc_path \in DocInputs, description \in Descriptions \cup {None}}

MetaCreateFolder == \E ts \in now_iso : \E s \in CreateFolderOutcomes(ts) : MetaReturns(s, ts)
MetaRenameFolder == \E ts \in now_iso : \E s \in RenameFolderOutcomes(ts) : MetaReturns(s, ts)
MetaMoveFolder == \E ts \in now_iso : \E s \in MoveFolderOutcomes(ts) : MetaReturns(s, ts)
MetaRemoveFolder ==
    \E path \in FolderInputs : \E force \in BOOLEAN :
        MetaReturns(remove_folder_at(Meta, World, path, force), clock)
MetaCreateDoc == \E ts \in now_iso : \E s \in CreateDocOutcomes(ts) : MetaReturns(s, ts)
MetaMoveDoc == \E ts \in now_iso : \E s \in MoveDocOutcomes(ts) : MetaReturns(s, ts)
MetaRenameDoc == \E ts \in now_iso : \E s \in RenameDocOutcomes(ts) : MetaReturns(s, ts)
MetaRemoveDoc ==
    \E doc_path \in DocInputs : MetaReturns(remove_doc_at(Meta, World, doc_path), clock)
MetaSetDocDescription ==
    \E ts \in now_iso : \E s \in SetDocDescriptionOutcomes(ts) : MetaReturns(s, ts)
MetaSaveDocContent ==
    \E ts \in now_iso : \E s \in SaveDocContentOutcomes(ts) : MetaReturns(s, ts)
\* the file's mtime is whatever the last writer of the file left
MetaGetDocMeta ==
    \E doc_path \in DocInputs : \E mtime \in 0..clock :
        MetaReturns(get_doc_meta_at(Meta, World, doc_path, mtime), clock)
MetaGetDocContent ==
    \E doc_path \in DocInputs : \E mtime \in 0..clock :
        MetaReturns(get_doc_content_at(Meta, World, doc_path, mtime), clock)

MetaNext ==
    \/ MetaCreateFolder
    \/ MetaRenameFolder
    \/ MetaMoveFolder
    \/ MetaRemoveFolder
    \/ MetaCreateDoc
    \/ MetaMoveDoc
    \/ MetaRenameDoc
    \/ MetaRemoveDoc
    \/ MetaSetDocDescription
    \/ MetaSaveDocContent
    \/ MetaGetDocMeta
    \/ MetaGetDocContent

MetaSpec == MetaInit /\ [][MetaNext]_vars

-----------------------------------------------------------------------------
(* One Indexer on its own: index_file, remove_file, update_file_path,       *)
(* build_all and get_stats called one after the other.  indexerCalls holds  *)
(* the last call and what it returned; the files are those of the contexts  *)
(* root, and what a file holds is read when a call reads it.                *)

IdeaFile == <<".", "i", "d", "e", "a", "s", "/", "i">>
IndexPaths == {Slash(<<"a">>, <<"x">>), Slash(<<"a">>, <<"y">>), IdeaFile}

\* what read_to_string may return
DocTexts == {<<" ">>, <<"t">>, <<"t", "#", "u">>}
IdeaTexts ==
    {<<" ">>, <<"[", "1", "t">>, <<"[", "1", "t", "[", "2", "u">>,
     <<"[", "1", "t", "[", "1", "u">>}
TextsOf(rel_path) == IF rel_path = IdeaFile THEN IdeaTexts ELSE DocTexts
Readings(paths) ==
    {texts \in [{paths[i] : i \in DOMAIN paths} -> DocTexts \cup IdeaTexts] :
         \A p \in DOMAIN texts : texts[p] \in TextsOf(p)}

\* Vec<Doc> of build_all, by rel_path: a listing of the catalog, which is ordered
MaxBuildDocs == 2
DocLists ==
    {paths \in UNION {[1..n -> IndexPaths] : n \in 0..MaxBuildDocs} :
         \A i \in DOMAIN paths : \A j \in DOMAIN paths :
             i < j => paths[i] # paths[j] /\ StrLessEq(paths[i], paths[j])}

\* the files the contexts root may hold
FileSets == {IndexPaths, IndexPaths \ {Slash(<<"a">>, <<"y">>)}}

\* Indexer::new on a contexts root that holds some of the files
IndexInit ==
    /\ folders = {}
    /\ docs = {}
    /\ dirs = {contexts_root}
    /\ \E present \in FileSets : files = {AbsJoin(p) : p \in present}
    /\ folderSeq = 0
    /\ docSeq = 0
    /\ emitted = <<>>
    /\ allOk = TRUE
    /\ calls = 0
    /\ SyncServiceInit
    /\ tableExists = FALSE
    /\ lance = LanceOf(tableExists)
    /\ given = <<>>
    /\ returned = <<>>
    /\ build = NoBuild
    /\ node = NoNode
    /\ contents = <<>>
    /\ threads = NoThreads
    /\ NoMeta

\* the call leaves the store as ix; built is what the ghost lastIndexed becomes
IndexReturns(ok, ix, call, built) ==
    /\ IndexBecomes(ix)
    /\ indexerCalls' = <<call>>
    /\ allOk' = (allOk /\ (ok \/ ix = Index))
    /\ lastIndexed' = built
    /\ UNCHANGED <<folders, docs, dirs, files, folderSeq, docSeq, emitted, calls, enabled,
                   pending_actions, received, eventCount, flushPc, actions, drained,
                   drainedFrom, executed, success_count, error_count, metadataUpdated,
                   threads, metaVars, pureVars, appVars, contents>>

CallIndexFile(rel_path, text, embed_ok) ==
    LET result == index_file(Index, rel_path, text, embed_ok)
    IN IndexReturns(result.ok, result.ix, <<"index_file", result.ok>>,
                    IF result.ok THEN MapInsert(lastIndexed, rel_path, file_chunks(rel_path, text))
                    ELSE lastIndexed)

CallRemoveFile(rel_path) ==
    LET result == remove_file(Index, rel_path)
    IN IndexReturns(result.ok, result.ix, <<"remove_file", result.ok>>,
                    MapInsert(lastIndexed, rel_path, <<>>))

CallUpdateFilePath(old_path, new_path, text, embed_ok) ==
    LET result == update_file_path(Index, old_path, new_path, text, embed_ok)
        removed == MapInsert(lastIndexed, old_path, <<>>)
    IN IndexReturns(result.ok, result.ix, <<"update_file_path", result.ok>>,
                    IF result.ok /\ fs_exists(World, AbsJoin(new_path))
                    THEN MapInsert(removed, new_path, file_chunks(new_path, text))
                    ELSE removed)

CallBuildAll(paths, texts, fault) ==
    LET result == build_all(Index, paths, texts, fault)
    IN IndexReturns(result.ok, result.ix,
                    <<"build_all", result.ok, result.total_chunks>>,
                    IF result.ok
                    THEN [p \in IndexPaths |->
                              IF p \in DOMAIN texts THEN doc_chunks(p, texts[p]) ELSE <<>>]
                    ELSE lastIndexed)

CallGetStats ==
    IndexReturns(TRUE, Index, <<"get_stats", get_stats(Index).total_chunks>>, lastIndexed)

IndexFile ==
    \E rel_path \in IndexPaths : \E text \in TextsOf(rel_path) : \E embed_ok \in BOOLEAN :
        CallIndexFile(rel_path, text, embed_ok)
RemoveFile == \E rel_path \in IndexPaths : CallRemoveFile(rel_path)
UpdateFilePath ==
    \E old_path \in IndexPaths : \E new_path \in IndexPaths \ {old_path} :
        \E text \in TextsOf(new_path) : \E embed_ok \in BOOLEAN :
            CallUpdateFilePath(old_path, new_path, text, embed_ok)
BuildAll ==
    \E paths \in DocLists : \E texts \in Readings(paths) :
        \E fault \in {NoFault, [NoFault EXCEPT !.embed = 1]} :
            CallBuildAll(paths, texts, fault)
GetStats == CallGetStats

IndexNext ==
    \/ IndexFile
    \/ RemoveFile
    \/ UpdateFilePath
    \/ BuildAll
    \/ GetStats

IndexSpec == IndexInit /\ [][IndexNext]_vars

-----------------------------------------------------------------------------
(* build_all over several batches, with an embedding model of any vector    *)
(* length, on a database that may hold an empty table from an earlier run.  *)
(* indexerCalls holds the last call: for build_all the value returned, the  *)
(* progress reported, the batch reached and the arguments.                  *)

\* docs of one build_all
MaxBatchDocs == 3
BatchLists ==
    {paths \in UNION {[1..n -> IndexPaths] : n \in 0..MaxBatchDocs} :
         \A i \in DOMAIN paths : \A j \in DOMAIN paths :
             i < j => paths[i] # paths[j] /\ StrLessEq(paths[i], paths[j])}

\* what read_to_string may return during a build
BatchTextsOf(rel_path) ==
    IF rel_path = IdeaFile THEN {<<"[", "1", "t">>}
    ELSE IF rel_path = Slash(<<"a">>, <<"x">>) THEN {<<" ">>, <<"t">>}
    ELSE {<<"t">>}
BatchReadings(paths) ==
    {texts \in [{paths[i] : i \in DOMAIN paths} -> {<<"[", "1", "t">>, <<" ">>, <<"t">>}] :
         \A p \in DOMAIN texts : texts[p] \in BatchTextsOf(p)}

\* the batch whose embedding call or whose upsert fails, if any
Faults ==
    LET batches == 1..((MaxBatchDocs + batch_size - 1) \div batch_size)
    IN {NoFault} \cup {[NoFault EXCEPT !.embed = k] : k \in batches}
                 \cup {[NoFault EXCEPT !.upsert = k] : k \in batches}

BuildInit ==
    /\ folders = {}
    /\ docs = {}
    /\ dirs = {contexts_root}
    /\ \E present \in FileSets : files = {AbsJoin(p) : p \in present}
    /\ folderSeq = 0
    /\ docSeq = 0
    /\ emitted = <<>>
    /\ allOk = TRUE
    /\ calls = 0
    /\ enabled = TRUE
    /\ pending_actions = <<>>
    /\ received = <<>>
    /\ eventCount = 0
    /\ flushPc = "idle"
    /\ actions = {}
    /\ drained = <<>>
    /\ drainedFrom = <<>>
    /\ executed = <<>>
    /\ indexerCalls = <<>>
    /\ success_count = 0
    /\ error_count = 0
    /\ metadataUpdated = FALSE
    /\ chunks = EmptyBag
    /\ lastIndexed = <<>>
    /\ tableExists \in BOOLEAN
    /\ lance = LanceOf(tableExists)
    /\ given = <<>>
    /\ returned = <<>>
    /\ build = NoBuild
    /\ node = NoNode
    /\ contents = <<>>
    /\ indexer = [dimensions |-> config_dimensions, dimensions_verified |-> FALSE,
                  recreated |-> 0]
    /\ \E length \in VectorLengths :
           embedding = [actual_dimensions |-> 0, vector_length |-> length]
    /\ threads = NoThreads
    /\ NoMeta

CallBuildBatches(paths, texts, fault) ==
    LET result == build_all(Index, paths, texts, fault)
    IN IndexReturns(result.ok, result.ix,
                    <<"build_all", result.ok, result.total_chunks, result.progress,
                      result.batch, paths, texts>>,
                    IF result.ok
                    THEN [p \in IndexPaths |->
                              IF p \in DOMAIN texts THEN doc_chunks(p, texts[p]) ELSE <<>>]
                    ELSE lastIndexed)

BuildBatches ==
    \E paths \in BatchLists : \E texts \in BatchReadings(paths) : \E fault \in Faults :
        CallBuildBatches(paths, texts, fault)
IndexOneFile ==
    \E rel_path \in IndexPaths : \E text \in BatchTextsOf(rel_path) : \E embed_ok \in BOOLEAN :
        CallIndexFile(rel_path, text, embed_ok)

BuildNext ==
    \/ BuildBatches
    \/ IndexOneFile
    \/ RemoveFile

BuildSpec == BuildInit /\ [][BuildNext]_vars

-----------------------------------------------------------------------------
(* A new Indexer on a database an earlier run filled: the table holds the    *)
(* chunk of a/y at the configured dimensions, and the embedding model in use *)
(* now may return vectors of another length.                                 *)

FilledInit ==
    /\ folders = {}
    /\ docs = {}
    /\ dirs = {contexts_root}
    /\ \E present \in FileSets : files = {AbsJoin(p) : p \in present}
    /\ folderSeq = 0
    /\ docSeq = 0
    /\ emitted = <<>>
    /\ allOk = TRUE
    /\ calls = 0
    /\ enabled = TRUE
    /\ pending_actions = <<>>
    /\ received = <<>>
    /\ eventCount = 0
    /\ flushPc = "idle"
    /\ actions = {}
    /\ drained = <<>>
    /\ drainedFrom = <<>>
    /\ executed = <<>>
    /\ indexerCalls = <<>>
    /\ success_count = 0
    /\ error_count = 0
    /\ metadataUpdated = FALSE
    /\ chunks = SetToBag({[id |-> <<"a", "/", "y", "#", "0">>, file_path |-> <<"a", "/", "y">>,
                           content |-> <<"t">>]})
    /\ lastIndexed = <<>>
    /\ tableExists = TRUE
    /\ lance = [table |-> TRUE, dimensions |-> 1]
    /\ given = <<>>
    /\ returned = <<>>
    /\ build = NoBuild
    /\ node = NoNode
    /\ contents = <<>>
    /\ indexer = [dimensions |-> 1, dimensions_verified |-> FALSE, recreated |-> 0]
    /\ \E length \in VectorLengths :
           embedding = [actual_dimensions |-> 0, vector_length |-> length]
    /\ threads = NoThreads
    /\ NoMeta

\* single files are indexed and removed; no build_all resets the table
FilledNext ==
    \/ IndexOneFile
    \/ RemoveFile

FilledSpec == FilledInit /\ [][FilledNext]_vars

-----------------------------------------------------------------------------
(* One flush of the sync service on an index that is up to date *)

\* the service starts on an index that holds the chunks of the one doc, a/x
UpToDateInit ==
    /\ folders = {}
    /\ docs = {}
    /\ dirs = {contexts_root, <<"~", "/", "a">>}
    /\ files = {<<"~", "/", "a", "/", "x">>}
    /\ folderSeq = 0
    /\ docSeq = 0
    /\ emitted = <<>>
    /\ allOk = TRUE
    /\ calls = 0
    /\ enabled = TRUE
    /\ pending_actions = <<>>
    /\ received = <<>>
    /\ eventCount = 0
    /\ flushPc = "idle"
    /\ actions = {}
    /\ drained = <<>>
    /\ drainedFrom = <<>>
    /\ executed = <<>>
    /\ indexerCalls = <<>>
    /\ success_count = 0
    /\ error_count = 0
    /\ metadataUpdated = FALSE
    /\ tableExists = TRUE
    /\ chunks = SetToBag({[id |-> <<"a", "/", "x", "#", "0">>, file_path |-> <<"a", "/", "x">>,
                           content |-> <<"t">>]})
    /\ lastIndexed = <<>>
    /\ lance = [table |-> TRUE, dimensions |-> 1]
    /\ indexer = [dimensions |-> 1, dimensions_verified |-> FALSE, recreated |-> 0]
    /\ embedding = [actual_dimensions |-> 0, vector_length |-> 1]
    /\ given = <<>>
    /\ returned = <<>>
    /\ build = NoBuild
    /\ node = NoNode
    /\ contents = <<>>
    /\ threads = NoThreads
    /\ NoMeta

\* doc events, the first tick that finds actions, and the for loop of its flush
FlushNext ==
    \/ DocEvent
    \/ Tick
    \/ ExecuteAction

FlushSpec == UpToDateInit /\ [][FlushNext]_vars

-----------------------------------------------------------------------------
(* The enabled service with a ticker that keeps firing *)

\* the events the catalog publishes while the ticker is watched
LiveMaxEvents == 3

\* the actions the doc events of folder a translate to
LiveActions ==
    LET paths == {q \in SyncDocPaths : parent_rel_path(q) = <<"a">>}
    IN {Update(p) : p \in paths} \cup {Remove(p) : p \in paths}
       \cup {Rename(pair[1], pair[2]) : pair \in {r \in paths \X paths : r[1] # r[2]}}

\* the listener and the ticker of a service nobody disables, on an index that exists
LiveNext ==
    \/ eventCount < LiveMaxEvents /\ DocEvent
    \/ Tick
    \/ ExecuteAction
    \/ FinishFlush

\* ticker.tick() returns every check_interval_secs, each awaited indexer call of
\* the for loop returns, and the loop body after it runs to the next tick
LiveSpec ==
    /\ UpToDateInit
    /\ [][LiveNext]_vars
    /\ WF_vars(Tick)
    /\ WF_vars(ExecuteAction)
    /\ WF_vars(FinishFlush)

-----------------------------------------------------------------------------
(* The sync service started before the index is built *)

\* Indexer::new on the database as it is: a VectorStore that opens the table when
\* the database holds one, and an EmbeddingClient that has not seen a vector yet
Indexer_new ==
    [table |-> lance.table, chunks |-> chunks, lance |-> lance,
     indexer |-> [dimensions |-> config_dimensions, dimensions_verified |-> FALSE,
                  recreated |-> 0],
     embedding |-> [embedding EXCEPT !.actual_dimensions = 0]]

\* the service starts on a contexts root without documents and without a table
StartInit ==
    /\ CatalogInit
    /\ SyncServiceInit
    /\ tableExists = FALSE
    /\ lance = [table |-> FALSE, dimensions |-> 0]
    /\ given = <<>>
    /\ returned = <<>>
    /\ build = NoBuild
    /\ node = NoNode
    /\ contents = <<>>
    /\ threads = NoThreads
    /\ NoMeta

\* the build command: build_all on an Indexer of its own, over the docs there are;
\* the Indexer of the service is not touched
BuildElsewhere ==
    /\ ~lance.table
    /\ DocFiles # {}
    /\ \E out \in {build_all(Indexer_new, PathSeq(DocFiles), [p \in DocFiles |-> <<"t">>],
                             NoFault)} :
           /\ out.ok
           /\ lance' = out.ix.lance
           /\ chunks' = out.ix.chunks
    /\ UNCHANGED <<catalogVars, enabled, pending_actions, received, eventCount, flushPc, actions,
                   drained, drainedFrom, executed, indexerCalls, success_count, error_count,
                   metadataUpdated, tableExists, threads, metaVars, lastIndexed, indexer,
                   embedding, pureVars, appVars, contents>>

\* the for loop of the flush is left out: no tick of this service reaches it
StartNext ==
    \/ DocEvent
    \/ SetEnabled
    \/ Tick
    \/ BuildElsewhere

StartSpec == StartInit /\ [][StartNext]_vars

-----------------------------------------------------------------------------
(* The application: src-tauri/src/main.rs.  main() puts one Indexer slot in  *)
(* AppState (indexer: AsyncMutex::new(None)) and spawns an IndexSyncService  *)
(* whose new() makes a slot of its own (Arc::new(Mutex::new(None))).  Both   *)
(* Indexers open the one database under the configured path.                *)

\* the mutex a task holds while it works on the vector store: the flush task
\* holds the service's from indexer.lock() to the end of the for loop, the build
\* command holds AppState's from state.indexer.lock() to its return
Locked(mutex) ==
    \/ mutex = "IndexSyncService.indexer" /\ flushPc = "executing"
    \/ mutex = "AppState.indexer" /\ build.pc = "building"

\* the part of an index that belongs to one Indexer
Own(ix) == [table |-> ix.table, indexer |-> ix.indexer, embedding |-> ix.embedding]

\* the application's Indexer over the database as it is now; Indexer::new when
\* the slot holds None
AppIndex ==
    IF build.indexer = <<>> THEN Indexer_new
    ELSE [table |-> build.indexer.table, chunks |-> chunks, lance |-> lance,
          indexer |-> build.indexer.indexer, embedding |-> build.indexer.embedding]

\* build_search_index up to the loop over the batches: list the docs, lock
\* AppState.indexer, fill the slot, vector_store.reset()
BuildBegins ==
    /\ ~Locked("AppState.indexer")
    /\ DocFiles # {}
    /\ \E cleared \in {reset(AppIndex)} :
           /\ build' = [pc |-> "building", paths |-> PathSeq(DocFiles), indexer |-> Own(cleared)]
           /\ lance' = cleared.lance
           /\ chunks' = cleared.chunks
    /\ UNCHANGED <<catalogVars, enabled, pending_actions, received, eventCount, flushPc, actions,
                   drained, drainedFrom, executed, indexerCalls, success_count, error_count,
                   metadataUpdated, tableExists, threads, metaVars, lastIndexed, indexer,
                   embedding, pureVars, node, contents>>

\* one batch of build_all_with_progress; an error ends the command
BuildBatch ==
    /\ build.pc = "building"
    /\ build.paths # <<>>
    /\ \E n \in {IF Len(build.paths) < batch_size THEN Len(build.paths) ELSE batch_size} :
       \E ix \in {AppIndex} :
       \E out \in {build_batches(ix, SubSeq(build.paths, 1, n),
                                 [p \in {build.paths[i] : i \in DOMAIN build.paths} |-> <<"t">>], NoFault,
                                 [ok |-> TRUE, ix |-> ix, total_chunks |-> 0,
                                  progress |-> <<>>, batch |-> 0])} :
           /\ build' = [pc |-> IF out.ok THEN "building" ELSE "idle",
                        paths |-> IF out.ok THEN SubSeq(build.paths, n + 1, Len(build.paths))
                                  ELSE <<>>,
                        indexer |-> Own(out.ix)]
           /\ lance' = out.ix.lance
           /\ chunks' = out.ix.chunks
    /\ UNCHANGED <<catalogVars, enabled, pending_actions, received, eventCount, flushPc, actions,
                   drained, drainedFrom, executed, indexerCalls, success_count, error_count,
                   metadataUpdated, tableExists, threads, metaVars, lastIndexed, indexer,
                   embedding, pureVars, node, contents>>

\* the command returns and its guard is dropped
BuildReturns ==
    /\ build.pc = "building"
    /\ build.paths = <<>>
    /\ build' = [build EXCEPT !.pc = "idle"]
    /\ UNCHANGED <<catalogVars, syncVars, threads, metaVars, lastIndexed, dimVars, pureVars, node, contents>>

\* the service on an index that is up to date, and the build command
AppNext ==
    \/ DocEvent
    \/ Tick
    \/ ExecuteAction
    \/ FinishFlush
    \/ BuildBegins
    \/ BuildBatch
    \/ BuildReturns

AppSpec == UpToDateInit /\ [][AppNext]_vars

-----------------------------------------------------------------------------
(* The node binding: start_index_sync and the service task it spawns *)

\* what start_index_sync hands back, with what it did and what it found
Returned(result, started, was_running) ==
    [result |-> result, started |-> started, was_running |-> was_running]

\* start_index_sync: swap(true) on the flag and Ok(false) when it was set; then
\* ctx()?, which initialises CONTEXT once and can fail until it has; SearchConfig::load
\* always returns Ok; then the service task is spawned and Ok(true) returned
start_index_sync(n, init_ok) ==
    IF n.INDEX_SYNC_RUNNING
    THEN [n EXCEPT !.returned = Returned("Ok(false)", FALSE, n.service # "none")]
    ELSE IF ~n.CONTEXT /\ ~init_ok
    THEN [n EXCEPT !.INDEX_SYNC_RUNNING = TRUE,
                   !.returned = Returned("Err", FALSE, n.service # "none")]
    ELSE [n EXCEPT !.INDEX_SYNC_RUNNING = TRUE, !.CONTEXT = TRUE, !.service = "starting",
                   !.returned = Returned("Ok(true)", TRUE, n.service # "none")]

StartIndexSync ==
    /\ \E init_ok \in BOOLEAN : node' = start_index_sync(node, init_ok)
    /\ UNCHANGED <<catalogVars, syncVars, threads, metaVars, lastIndexed, dimVars, pureVars,
                   build, contents>>

\* the spawned task: sync_service.start creates the Indexer and goes on to listen
ServiceListens ==
    /\ node.service = "starting"
    /\ node' = [node EXCEPT !.service = "running"]
    /\ UNCHANGED <<catalogVars, syncVars, threads, metaVars, lastIndexed, dimVars, pureVars,
                   build, contents>>

\* the spawned task: sync_service.start returns Err from Indexer::new, the task
\* logs it, clears the flag and ends
ServiceEnds ==
    /\ node.service = "starting"
    /\ node' = [node EXCEPT !.service = "none", !.INDEX_SYNC_RUNNING = FALSE]
    /\ UNCHANGED <<catalogVars, syncVars, threads, metaVars, lastIndexed, dimVars, pureVars,
                   build, contents>>

\* the listener and the ticker run once the service listens
NodeNext ==
    \/ StartIndexSync
    \/ ServiceListens
    \/ ServiceEnds
    \/ node.service = "running" /\ DocEvent
    \/ node.service = "running" /\ Tick
    \/ node.service = "running" /\ ExecuteAction
    \/ node.service = "running" /\ FinishFlush

NodeSpec == UpToDateInit /\ [][NodeNext]_vars

-----------------------------------------------------------------------------
(* The catalog calls effect by effect: each filesystem call and each store  *)
(* write of a call is one step                                              *)

\* the two worlds a call passes through that changes the filesystem first
fs_then_store(w, after) == <<[w EXCEPT !.dirs = after.dirs, !.files = after.files], after>>

\* the two worlds a call passes through that writes the store first
store_then_fs(w, after) == <<[after EXCEPT !.dirs = w.dirs, !.files = w.files], after>>

\* the whole call
RunStepCall(w, call) ==
    IF call.op = "create_folder" THEN create_folder(w, call.path)
    ELSE IF call.op = "create_doc" THEN create_doc(w, call.folder_path, call.name, 2)
    ELSE IF call.op = "rename_doc" THEN rename_doc(w, call.doc_path, call.new_name)
    ELSE IF call.op = "move_doc" THEN move_doc(w, call.doc_path, call.dest_folder_path)
    ELSE IF call.op = "rename_folder" THEN rename_folder(w, call.path, call.new_name)
    ELSE IF call.op = "move_folder" THEN move_folder(w, call.path, call.dest_folder_path)
    ELSE IF call.op = "remove_doc" THEN remove_doc(w, call.doc_path)
    ELSE remove_folder(w, call.path, call.force)

\* a remove_doc that deletes the row before it removes the file
remove_doc_steps_row_first(w, after) == store_then_fs(w, after)

\* remove_doc: fs::remove_file(&doc.abs_path), then DELETE FROM docs WHERE id = ?1
remove_doc_steps(w, after) == fs_then_store(w, after)

\* the worlds after each effect of a call that returns Ok, in the order of the code;
\* no steps for a call that returns Err
steps(w, call) ==
    LET out == RunStepCall(w, call)
        parent_path == parent_rel_path(normalize_folder_path(call.path))
        ensured == IF parent_path # None THEN ensure_folder_record(w, parent_path).w ELSE w
    IN IF ~out.ok THEN <<>>
       \* ensure_folder_record(parent): fs::create_dir_all, INSERT INTO folders;
       \* then fs::create_dir_all(&abs_path), INSERT INTO folders
       ELSE IF call.op = "create_folder"
       THEN fs_then_store(w, ensured) \o fs_then_store(ensured, out.w)
       \* fs::remove_file, then DELETE FROM docs
       ELSE IF call.op = "remove_doc" THEN remove_doc_steps(w, out.w)
       \* the transaction of DELETEs, then fs::remove_dir_all / fs::remove_dir
       ELSE IF call.op = "remove_folder" THEN store_then_fs(w, out.w)
       \* create_doc: fs::create_dir_all(parent), fs::write, then INSERT INTO docs;
       \* rename_doc, move_doc: fs::create_dir_all(parent), fs::rename, then UPDATE docs;
       \* rename_folder, move_folder: fs::create_dir_all(parent), fs::rename, then
       \* the transaction
       ELSE fs_then_store(w, out.w)

StepCalls ==
    {[op |-> "create_folder", path |-> <<"c">>],
     [op |-> "create_folder", path |-> <<"c", "/", "a">>],
     [op |-> "create_doc", folder_path |-> <<"b">>, name |-> <<"x">>],
     [op |-> "rename_doc", doc_path |-> <<"a", "/", "x">>, new_name |-> <<"b">>],
     [op |-> "move_doc", doc_path |-> <<"a", "/", "x">>, dest_folder_path |-> <<"b">>],
     [op |-> "rename_folder", path |-> <<"a">>, new_name |-> <<"c">>],
     [op |-> "move_folder", path |-> <<"a">>, dest_folder_path |-> <<"b">>],
     [op |-> "remove_doc", doc_path |-> <<"a", "/", "x">>],
     [op |-> "remove_doc", doc_path |-> <<"b", "/", "x">>],
     [op |-> "remove_folder", path |-> <<"a">>, force |-> TRUE],
     [op |-> "remove_folder", path |-> <<"b">>, force |-> FALSE]}

\* the calls of one run
MaxStepCalls == 3

NoStep == [op |-> "none"]

\* folders a and b and the doc a/x, as create_folder and create_doc leave them
StepInit ==
    /\ folders = {[id |-> 1, rel_path |-> <<"a">>, name |-> <<"a">>,
                    abs_path |-> <<"~", "/", "a">>, parent_id |-> 0],
                   [id |-> 2, rel_path |-> <<"b">>, name |-> <<"b">>,
                    abs_path |-> <<"~", "/", "b">>, parent_id |-> 0]}
    /\ docs = {[id |-> 1, rel_path |-> <<"a", "/", "x">>, stable_id |-> 1, name |-> <<"x">>,
                 abs_path |-> <<"~", "/", "a", "/", "x">>, folder_id |-> 1]}
    /\ dirs = {<<"~">>, <<"~", "/", "a">>, <<"~", "/", "b">>}
    /\ files = {<<"~", "/", "a", "/", "x">>}
    /\ folderSeq = 2
    /\ docSeq = 1
    /\ emitted = <<>>
    /\ allOk = TRUE
    /\ calls = 0
    /\ SyncServiceInit
    /\ tableExists = FALSE
    /\ lance = LanceOf(tableExists)
    /\ threads = NoThreads
    /\ NoMeta
    /\ given = NoStep
    /\ returned = <<>>
    /\ build = NoBuild
    /\ node = NoNode
    /\ contents = <<>>

\* the call enters: what it looks up decides the effects to come
BeginCall ==
    /\ given = NoStep
    /\ calls < MaxStepCalls
    /\ \E call \in StepCalls : \E effects \in {steps(World, call)} :
           /\ effects # <<>>
           /\ given' = [op |-> call.op, call |-> call, before |-> World,
                        steps |-> effects, done |-> 0]
    /\ UNCHANGED <<catalogVars, syncVars, threads, metaVars, lastIndexed, dimVars, returned, appVars, contents>>

\* the next filesystem call or store write of the call
Effect ==
    /\ given # NoStep
    /\ given.done < Len(given.steps)
    /\ Becomes(given.steps[given.done + 1])
    /\ given' = [given EXCEPT !.done = @ + 1]
    /\ UNCHANGED <<emitted, allOk, calls, syncVars, threads, metaVars, lastIndexed, dimVars,
                   returned, appVars, contents>>

CallReturns ==
    /\ given # NoStep
    /\ given.done = Len(given.steps)
    /\ given' = NoStep
    /\ calls' = calls + 1
    /\ UNCHANGED <<folders, docs, dirs, files, folderSeq, docSeq, emitted, allOk, syncVars,
                   threads, metaVars, lastIndexed, dimVars, returned, appVars, contents>>

StepNext == BeginCall \/ Effect \/ CallReturns

StepSpec == StepInit /\ [][StepNext]_vars

-----------------------------------------------------------------------------
(* Files an outside program left under contexts_root.  contents follows what *)
(* each file holds through the filesystem calls of create_doc, rename_doc    *)
(* and move_doc.                                                             *)

\* fs::write(abs, "") creates the file or truncates it: it holds "" afterwards
written_contents(c, abs) == [p \in DOMAIN c \cup {abs} |-> IF p = abs THEN <<>> ELSE c[p]]

\* fs::rename(old, new) of a regular file: new holds what old held, whether or
\* not there was a file at new
renamed_contents(c, old, new) ==
    IF old = new THEN c
    ELSE [p \in (DOMAIN c \ {old}) \cup {new} |-> IF p = new THEN c[old] ELSE c[p]]

\* what the files hold after create_doc: fs::write runs when the name is valid,
\* the folder has a row, no doc row has the path and the parent directory is there
create_doc_contents(w, c, folder_path, name) ==
    LET folder == find_folder(w, normalize_folder_path(folder_path))
        rel_path == IF folder.rel_path = <<>> THEN name ELSE Slash(folder.rel_path, name)
        abs_path == AbsJoin(rel_path)
        made == create_dir_all(w, FsParent(abs_path))
    IN IF name = <<>> \/ ContainsSlash(name) \/ folder.id = 0 THEN c
       ELSE IF find_doc(w, rel_path).id # 0 THEN c
       ELSE IF ~made.ok \/ ~fs_write(made.w, abs_path).ok THEN c
       ELSE written_contents(c, abs_path)

\* what the files hold after the part rename_doc and move_doc share: fs::rename
\* runs when no doc row has the new path and the parent directory is there
relocate_doc_contents(w, c, doc, new_rel_path) ==
    LET new_abs_path == AbsJoin(new_rel_path)
        made == create_dir_all(w, FsParent(new_abs_path))
    IN IF find_doc(w, new_rel_path).id # 0 THEN c
       ELSE IF ~made.ok \/ ~fs_rename(made.w, doc.abs_path, new_abs_path).ok THEN c
       ELSE renamed_contents(c, doc.abs_path, new_abs_path)

rename_doc_contents(w, c, doc_path, new_name) ==
    LET rel_doc_path == normalize_doc_path(doc_path)
        doc == find_doc(w, rel_doc_path)
        folder_rel == parent_rel_path(doc.rel_path)
        new_rel_path == IF folder_rel # None /\ folder_rel # <<>>
                        THEN Slash(folder_rel, new_name) ELSE new_name
    IN IF new_name = <<>> \/ ContainsSlash(new_name) THEN c
       ELSE IF rel_doc_path = None \/ doc.id = 0 THEN c
       ELSE relocate_doc_contents(w, c, doc, new_rel_path)

move_doc_contents(w, c, doc_path, dest_folder_path) ==
    LET rel_doc_path == normalize_doc_path(doc_path)
        doc == find_doc(w, rel_doc_path)
        dest_folder == find_folder(w, normalize_folder_path(dest_folder_path))
        new_rel_path == IF dest_folder.rel_path = <<>> THEN doc.name
                        ELSE Slash(dest_folder.rel_path, doc.name)
    IN IF rel_doc_path = None \/ doc.id = 0 \/ dest_folder.id = 0 THEN c
       ELSE relocate_doc_contents(w, c, doc, new_rel_path)

\* the folders, the doc names and the doc paths of the calls
UntrackedFolders == {<<"a">>, <<"b">>}
UntrackedNames == {<<"x">>, <<"y">>}
UntrackedDocPaths == {Slash(f, n) : f \in UntrackedFolders, n \in UntrackedNames}

\* folders a and b and the doc a/x, whose file holds "d"
UntrackedInit ==
    /\ folders = {[id |-> 1, rel_path |-> <<"a">>, name |-> <<"a">>,
                    abs_path |-> <<"~", "/", "a">>, parent_id |-> 0],
                   [id |-> 2, rel_path |-> <<"b">>, name |-> <<"b">>,
                    abs_path |-> <<"~", "/", "b">>, parent_id |-> 0]}
    /\ docs = {[id |-> 1, rel_path |-> <<"a", "/", "x">>, stable_id |-> 1, name |-> <<"x">>,
                 abs_path |-> <<"~", "/", "a", "/", "x">>, folder_id |-> 1]}
    /\ dirs = {<<"~">>, <<"~", "/", "a">>, <<"~", "/", "b">>}
    /\ files = {<<"~", "/", "a", "/", "x">>}
    /\ folderSeq = 2
    /\ docSeq = 1
    /\ emitted = <<>>
    /\ allOk = TRUE
    /\ calls = 0
    /\ SyncServiceInit
    /\ tableExists = FALSE
    /\ lance = [table |-> FALSE, dimensions |-> 0]
    /\ threads = NoThreads
    /\ NoMeta
    /\ given = <<>>
    /\ returned = <<>>
    /\ build = NoBuild
    /\ node = NoNode
    /\ contents = [p \in {<<"~", "/", "a", "/", "x">>} |-> <<"d">>]

\* an outside program creates a file that holds "e" in a directory of the tree
ExternalWrite ==
    /\ \E rel_path \in UntrackedDocPaths : \E abs \in {AbsJoin(rel_path)} :
           /\ abs \notin files \cup dirs
           /\ FsParent(abs) \in dirs
           /\ files' = files \cup {abs}
           /\ contents' = [p \in DOMAIN contents \cup {abs} |->
                               IF p = abs THEN <<"e">> ELSE contents[p]]
    /\ UNCHANGED <<folders, docs, dirs, folderSeq, docSeq, emitted, allOk, calls, syncVars,
                   threads, metaVars, lastIndexed, dimVars, pureVars, appVars>>

\* the call returns out and leaves the files holding c
ReturnsWith(out, c) ==
    /\ out.w.docSeq <= MaxDocSeq
    /\ Becomes(out.w)
    /\ contents' = c
    /\ emitted' = out.ev
    /\ allOk' = (allOk /\ (out.ok \/ out.w = World))
    /\ calls' = IF out.w = World /\ c = contents THEN calls ELSE calls + 1
    /\ calls' <= MaxCalls
    /\ UNCHANGED <<syncVars, threads, metaVars, lastIndexed, dimVars, pureVars, appVars>>

CreateDocOver ==
    \E folder_path \in UntrackedFolders : \E name \in UntrackedNames :
        ReturnsWith(create_doc(World, folder_path, name, 2),
                    create_doc_contents(World, contents, folder_path, name))
RenameDocOver ==
    \E doc_path \in UntrackedDocPaths : \E new_name \in UntrackedNames :
        ReturnsWith(rename_doc(World, doc_path, new_name),
                    rename_doc_contents(World, contents, doc_path, new_name))
MoveDocOver ==
    \E doc_path \in UntrackedDocPaths : \E dest \in UntrackedFolders :
        ReturnsWith(move_doc(World, doc_path, dest),
                    move_doc_contents(World, contents, doc_path, dest))

UntrackedNext ==
    \/ ExternalWrite
    \/ CreateDocOver
    \/ RenameDocOver
    \/ MoveDocOver

UntrackedSpec == UntrackedInit /\ [][UntrackedNext]_vars

-----------------------------------------------------------------------------
(* Paths and names with ".." segments.  The filesystem starts with           *)
(* contexts_root and the directory that holds it.                            *)

DotDot == <<".", ".">>

\* the paths and names the calls are given
EscapeFolderPaths == {<<"a">>, DotDot, Slash(DotDot, <<"x">>), Slash(<<"a">>, DotDot)}
EscapeNames == {<<"b">>, DotDot}

EscapeInit ==
    /\ folders = {}
    /\ docs = {}
    /\ dirs = {<<>>, contexts_root}
    /\ files = {}
    /\ folderSeq = 0
    /\ docSeq = 0
    /\ emitted = <<>>
    /\ allOk = TRUE
    /\ calls = 0
    /\ SyncServiceInit
    /\ tableExists = FALSE
    /\ lance = [table |-> FALSE, dimensions |-> 0]
    /\ threads = NoThreads
    /\ NoMeta
    /\ given = <<>>
    /\ returned = <<>>
    /\ build = NoBuild
    /\ node = NoNode
    /\ contents = <<>>

EscapeCreateFolder == \E path \in EscapeFolderPaths : CallCreateFolder(path)
EscapeRenameFolder ==
    \E path \in EscapeFolderPaths : \E new_name \in EscapeNames : CallRenameFolder(path, new_name)
EscapeCreateDoc ==
    \E folder_path \in EscapeFolderPaths : \E name \in EscapeNames : \E sid \in StableIds :
        CallCreateDoc(folder_path, name, sid)
EscapeRemoveFolder == \E path \in EscapeFolderPaths : CallRemoveFolder(path, TRUE)

EscapeNext ==
    \/ EscapeCreateFolder
    \/ EscapeRenameFolder
    \/ EscapeCreateDoc
    \/ EscapeRemoveFolder

EscapeSpec == EscapeInit /\ [][EscapeNext]_vars

-----------------------------------------------------------------------------
(* generate_stable_id, called on its own *)

\* SELECT randomblob(16)
BlobLen == 16
Byte == 0..255

\* the blobs tried: any byte at one position, the same byte at the others
RandomBlobs ==
    {[i \in 1..BlobLen |-> IF i = k THEN v ELSE w] : k \in 1..BlobLen, v \in Byte, w \in {0, 165, 255}}

LowerHex == <<"0", "1", "2", "3", "4", "5", "6", "7", "8", "9", "a", "b", "c", "d", "e", "f">>

\* format!("{:02x}", v)
format_02x(v) == <<LowerHex[(v \div 16) + 1], LowerHex[(v % 16) + 1]>>

\* b.iter().map(|v| format!("{:02x}", v)).collect::<String>()
RECURSIVE hex_string(_)
hex_string(b) == IF b = <<>> THEN <<>> ELSE format_02x(Head(b)) \o hex_string(Tail(b))

\* the five groups joined by dashes
dashed(hex) ==
    SubSeq(hex, 1, 8) \o <<"-">> \o SubSeq(hex, 9, 12) \o <<"-">> \o SubSeq(hex, 13, 16)
        \o <<"-">> \o SubSeq(hex, 17, 20) \o <<"-">> \o SubSeq(hex, 21, 32)

\* a generate_stable_id that formats the blob as it is
generate_stable_id_raw(bytes) == dashed(hex_string(bytes))

\* b[6] = (b[6] & 0x0f) | 0x40 and b[8] = (b[8] & 0x3f) | 0x80 (b counts from 0)
generate_stable_id(bytes) ==
    IF Len(bytes) # BlobLen THEN None
    ELSE LET b == [bytes EXCEPT ![7] = (@ % 16) + 64, ![9] = (@ % 64) + 128]
         IN dashed(hex_string(b))

StableIdInit ==
    /\ CatalogInit
    /\ SyncServiceInit
    /\ tableExists = FALSE
    /\ lance = LanceOf(tableExists)
    /\ threads = NoThreads
    /\ NoMeta
    /\ given \in RandomBlobs
    /\ returned = <<>>
    /\ build = NoBuild
    /\ node = NoNode
    /\ contents = <<>>

GenerateStableId ==
    /\ returned = <<>>
    /\ returned' = generate_stable_id(given)
    /\ UNCHANGED <<catalogVars, syncVars, threads, metaVars, lastIndexed, dimVars, given, appVars, contents>>

StableIdNext == GenerateStableId

StableIdSpec == StableIdInit /\ [][StableIdNext]_vars

-----------------------------------------------------------------------------
(* Chunker::chunk on the events of the markdown parser, character by character *)

\* a text is a sequence of characters; these stand for the characters of three bytes
FullStop == "U+3002"
Comma == "U+FF0C"
Backtick == "U+0060"
WideChars == {FullStop, "U+FF01", "U+FF1F", Comma, "U+FF1B", "U+3001"}

\* char::len_utf8
len_utf8(c) == IF c \in WideChars THEN 3 ELSE 1

\* str::len, in bytes
RECURSIVE byte_len(_)
byte_len(s) == IF s = <<>> THEN 0 ELSE len_utf8(Head(s)) + byte_len(Tail(s))

\* char::is_whitespace
is_whitespace(c) == c \in {" ", "\n"}

\* str::trim
RECURSIVE trim(_)
trim(s) ==
    IF s = <<>> THEN s
    ELSE IF is_whitespace(Head(s)) THEN trim(Tail(s))
    ELSE IF is_whitespace(s[Len(s)]) THEN trim(SubSeq(s, 1, Len(s) - 1))
    ELSE s

\* the number of characters of s[..bytes]; -1 where the slice panics because
\* bytes is not a char boundary
chars_before(s, bytes) ==
    LET at == {k \in 0..Len(s) : byte_len(SubSeq(s, 1, k)) = bytes}
    IN IF at = {} THEN -1 ELSE CHOOSE k \in at : TRUE

\* str::rfind of a pattern: the byte index of its last occurrence, -1 for None
rfind(s, pat) ==
    LET at == {i \in 0..(Len(s) - Len(pat)) : SubSeq(s, i + 1, i + Len(pat)) = pat}
    IN IF at = {} THEN -1
       ELSE byte_len(SubSeq(s, 1, CHOOSE i \in at : \A j \in at : j <= i))

\* str::rfind(char::is_whitespace)
rfind_whitespace(s) ==
    LET at == {i \in 0..(Len(s) - 1) : is_whitespace(s[i + 1])}
    IN IF at = {} THEN -1
       ELSE byte_len(SubSeq(s, 1, CHOOSE i \in at : \A j \in at : j <= i))

sentence_ends ==
    <<<<FullStop>>, <<"U+FF01">>, <<"U+FF1F">>, <<".", "\n">>, <<"!", "\n">>, <<"?", "\n">>,
      <<".", " ">>, <<"!", " ">>, <<"?", " ">>>>

clause_ends == <<Comma, "U+FF1B", "U+3001", ",", ";">>

\* usize::saturating_sub
saturating_sub(a, b) == IF a > b THEN a - b ELSE 0

Split(head, remainder) == [panic |-> FALSE, chunk |-> head, remainder |-> remainder]
SplitPanics == [panic |-> TRUE, chunk |-> <<>>, remainder |-> <<>>]

\* the chunk and the remainder of a split after char_pos characters
split_at(c, text, char_pos, trimmed) ==
    IF char_pos < 0 THEN SplitPanics
    ELSE LET before == SubSeq(text, 1, char_pos)
             rest == SubSeq(text, saturating_sub(char_pos, c.overlap_chars) + 1, Len(text))
         IN IF trimmed THEN Split(trim(before), trim(rest)) ELSE Split(before, rest)

\* a split_chunk that cuts after max_chunk_chars characters whatever the text holds
split_chunk_hard(c, text) ==
    IF Len(text) <= c.max_chunk_chars THEN Split(text, <<>>)
    ELSE split_at(c, text, c.max_chunk_chars, FALSE)

\* Chunker::split_chunk
split_chunk(c, text) ==
    IF Len(text) <= c.max_chunk_chars THEN Split(text, <<>>)
    ELSE
    LET search_text == SubSeq(text, 1, c.max_chunk_chars)
        paragraph == rfind(search_text, <<"\n", "\n">>)
        sentences == {i \in DOMAIN sentence_ends : rfind(search_text, sentence_ends[i]) >= 0}
        clauses == {i \in DOMAIN clause_ends : rfind(search_text, <<clause_ends[i]>>) >= 0}
        whitespace == rfind_whitespace(search_text)
    IN IF paragraph >= 0 THEN split_at(c, text, chars_before(search_text, paragraph), TRUE)
       ELSE IF sentences # {}
       THEN LET end == sentence_ends[CHOOSE i \in sentences : \A j \in sentences : i <= j]
                pos == rfind(search_text, end)
            IN split_at(c, text, chars_before(search_text, pos + byte_len(end)), TRUE)
       ELSE IF clauses # {}
       THEN LET end == clause_ends[CHOOSE i \in clauses : \A j \in clauses : i <= j]
                pos == rfind(search_text, <<end>>)
            IN \* search_text[..=pos] ends one byte after pos
               split_at(c, text, chars_before(search_text, pos + 1), TRUE)
       ELSE IF whitespace >= 0
       THEN split_at(c, text, chars_before(search_text, whitespace), TRUE)
       ELSE split_at(c, text, c.max_chunk_chars, FALSE)

\* let min_chunk_chars = 50, scaled to the texts of the model
min_chunk_chars == 2

\* Chunker::post_process_chunks
RECURSIVE post_process_chunks(_, _)
post_process_chunks(pending, result) ==
    IF pending = <<>> THEN result
    ELSE IF Len(Head(pending)) < min_chunk_chars /\ result # <<>>
    THEN post_process_chunks(Tail(pending),
             [result EXCEPT ![Len(result)] = @ \o <<"\n", "\n">> \o Head(pending)])
    ELSE post_process_chunks(Tail(pending), Append(result, Head(pending)))

\* the events of pulldown_cmark::Parser the loop reacts to
TextEvent(text) == [kind |-> "Text", text |-> text]
CodeEvent(code) == [kind |-> "Code", text |-> code]
MarkEvent(kind) == [kind |-> kind, text |-> <<>>]

\* one iteration of for event in parser; st holds chunks, current_text and in_heading
chunk_event(c, st, event) ==
    LET flushed == IF event.kind = "StartHeading" /\ trim(st.current_text) # <<>>
                   THEN [st EXCEPT !.chunks = Append(@, trim(st.current_text)),
                                   !.current_text = <<>>]
                   ELSE st
        pushed ==
            CASE event.kind = "StartHeading" -> [flushed EXCEPT !.in_heading = TRUE]
              [] event.kind = "EndHeading" -> [st EXCEPT !.in_heading = FALSE]
              [] event.kind = "Text" ->
                    IF st.in_heading THEN st ELSE [st EXCEPT !.current_text = @ \o event.text]
              [] event.kind = "Code" ->
                    IF st.in_heading THEN st
                    ELSE [st EXCEPT !.current_text = @ \o <<Backtick>> \o event.text \o <<Backtick>>]
              [] event.kind \in {"SoftBreak", "HardBreak"} ->
                    IF st.in_heading THEN st ELSE [st EXCEPT !.current_text = Append(@, "\n")]
              [] event.kind = "EndParagraph" -> [st EXCEPT !.current_text = @ \o <<"\n", "\n">>]
              [] event.kind = "EndItem" -> [st EXCEPT !.current_text = Append(@, "\n")]
              [] OTHER -> st
    IN IF Len(pushed.current_text) > c.max_chunk_chars
       THEN LET split == split_chunk(c, pushed.current_text)
            IN IF split.panic THEN [pushed EXCEPT !.panic = TRUE]
               ELSE [pushed EXCEPT !.chunks = Append(@, split.chunk),
                                   !.current_text = split.remainder]
       ELSE pushed

RECURSIVE chunk_events(_, _, _)
chunk_events(c, st, events) ==
    IF events = <<>> \/ st.panic THEN st
    ELSE chunk_events(c, chunk_event(c, st, Head(events)), Tail(events))

\* Chunker::chunk: the contents of the chunks returned, or the panic
Chunker_chunk(c, events) ==
    LET st == chunk_events(c, [chunks |-> <<>>, current_text |-> <<>>, in_heading |-> FALSE,
                               panic |-> FALSE], events)
        last == IF trim(st.current_text) # <<>> THEN Append(st.chunks, trim(st.current_text))
                ELSE st.chunks
    IN IF st.panic THEN [panic |-> TRUE, chunks |-> <<>>]
       ELSE [panic |-> FALSE, chunks |-> post_process_chunks(last, <<>>)]

\* Chunker::new(max_chunk_chars, overlap_chars)
Chunkers == {[max_chunk_chars |-> m, overlap_chars |-> o] : m \in {4, 5}, o \in {0, 1}}

\* the texts of the Text events tried
EventTexts ==
    {<<"a", ".", " ", "a", ".", " ", "a", ".", " ", "a">>,
     <<"a", "a", "a", "a", "a", "a", "a">>,
     <<"a", Comma, "a", Comma, "a", "a">>,
     <<"a", ",", "a", "a", " ", "a", "a">>,
     <<"a", "a", "a", "a">>,
     <<"a">>}

ParserEvents ==
    {TextEvent(t) : t \in EventTexts}
        \cup {MarkEvent(k) : k \in {"SoftBreak", "EndParagraph", "EndItem", "StartHeading",
                                    "EndHeading"}}
        \cup {CodeEvent(<<"a">>)}

\* the longest list of events tried
MaxParserEvents == 3

ChunkerInit ==
    /\ CatalogInit
    /\ SyncServiceInit
    /\ tableExists = FALSE
    /\ lance = LanceOf(tableExists)
    /\ threads = NoThreads
    /\ NoMeta
    /\ given \in {[chunker |-> c, events |-> <<>>] : c \in Chunkers}
    /\ returned = <<>>
    /\ build = NoBuild
    /\ node = NoNode
    /\ contents = <<>>

\* the parser yields one more event
ParserYields ==
    /\ Len(given.events) < MaxParserEvents
    /\ \E event \in ParserEvents : given' = [given EXCEPT !.events = Append(@, event)]
    /\ returned' = <<>>
    /\ UNCHANGED <<catalogVars, syncVars, threads, metaVars, lastIndexed, dimVars, appVars, contents>>

ChunkReturns ==
    /\ given.events # <<>>
    /\ returned = <<>>
    /\ returned' = Chunker_chunk(given.chunker, given.events)
    /\ UNCHANGED <<catalogVars, syncVars, threads, metaVars, lastIndexed, dimVars, given, appVars, contents>>

ChunkerNext == ParserYields \/ ChunkReturns

ChunkerSpec == ChunkerInit /\ [][ChunkerNext]_vars

-----------------------------------------------------------------------------
(* Properties of the catalog *)

\* rel_path is path itself or lies under path/
AtOrUnder(rel_path, path) == rel_path = path \/ StartsWith(rel_path, path \o <<"/">>)

StrictlyUnder(rel_path, path) == StartsWith(rel_path, path \o <<"/">>)

\* the range of a sequence
Range(seq) == {seq[i] : i \in 1..Len(seq)}

\* the world after the step
WorldAfter ==
    [folders |-> folders', docs |-> docs', dirs |-> dirs', files |-> files',
     folderSeq |-> folderSeq', docSeq |-> docSeq']

\* I5 of the data model
DocFolderMatchesPath ==
    \A d \in docs : \E f \in folders :
        f.id = d.folder_id /\ parent_rel_path(d.rel_path) = f.rel_path

\* I1 and I2 of the data model
RowsMirrorFilesystem ==
    /\ \A f \in folders : f.abs_path = AbsJoin(f.rel_path) /\ f.abs_path \in dirs
    /\ \A d \in docs : d.abs_path = AbsJoin(d.rel_path) /\ d.abs_path \in files

\* what P2 asks of a successful rename_folder that returned {old, new}
RenameFolderPost(old, new) ==
    /\ \A r \in folders' \cup docs' : ~AtOrUnder(r.rel_path, old)
    /\ \A r \in folders : StrictlyUnder(r.rel_path, old) =>
           \E q \in folders' :
               /\ q.id = r.id
               /\ q.rel_path = Rebase(r.rel_path, old, new)
               /\ q.abs_path = AbsJoin(q.rel_path)
    /\ \A r \in docs : StrictlyUnder(r.rel_path, old) =>
           \E q \in docs' :
               /\ q.id = r.id
               /\ q.rel_path = Rebase(r.rel_path, old, new)
               /\ q.abs_path = AbsJoin(q.rel_path)
    /\ Len(emitted') = 1
    /\ emitted'[1].type = "FolderRenamed"
    /\ emitted'[1].old_path = old
    /\ emitted'[1].new_path = new
    /\ Range(emitted'[1].affected_docs) =
           {<<d.rel_path, Rebase(d.rel_path, old, new)>> :
                d \in {r \in docs : StrictlyUnder(r.rel_path, old)}}

\* C3: every successful rename_folder(a, b) returning {old, new} leaves no row at
\* or under old, moves every row that was under old/ to the same suffix under new/
\* (abs_path following), and publishes exactly one FolderEvent::Renamed{old, new}
\* whose affected_docs are exactly the (old, new) paths of the docs that were
\* under old/.
C3_RenameFolderContract ==
    [][\A path \in FolderInputs : \A new_name \in FolderNameInputs :
          LET out == rename_folder(World, path, new_name)
          IN (CallRenameFolder(path, new_name) /\ out.ok)
                 => RenameFolderPost(out.ret[1], out.ret[2])]_vars

\* C4: after successful catalog calls, every doc row's folder_id references the
\* folder row whose rel_path is parent_rel_path(doc.rel_path).
C4_DocFolderMatchesPath == allOk => DocFolderMatchesPath

\* what P4 asks of a successful remove_folder(p, force = true)
RemoveFolderForcePost(p) ==
    /\ folders' = {f \in folders : ~AtOrUnder(f.rel_path, p)}
    /\ docs' = {d \in docs : ~AtOrUnder(d.rel_path, p)}
    /\ \A e \in dirs' \cup files' : e # AbsJoin(p) /\ ~Under(e, AbsJoin(p))
    /\ \A e \in dirs \cup files :
           (e # AbsJoin(p) /\ ~Under(e, AbsJoin(p))) => e \in dirs' \cup files'
    /\ Len(emitted') = 1
    /\ emitted'[1].type = "FolderDeleted"
    /\ emitted'[1].rel_path = p
    /\ Range(emitted'[1].removed_docs) =
           {d.rel_path : d \in {r \in docs : StrictlyUnder(r.rel_path, p)}}

\* C6: a successful remove_folder(p, force = true) deletes exactly the folder and
\* doc rows at p or under p/, removes the filesystem subtree at contexts_root/p
\* and publishes one FolderEvent::Deleted{p, removed_docs} whose removed_docs are
\* exactly the doc paths that were under p/.
C6_RemoveFolderForceContract ==
    [][\A path \in FolderInputs :
          LET out == remove_folder(World, path, TRUE)
          IN (CallRemoveFolder(path, TRUE) /\ out.ok) => RemoveFolderForcePost(out.ret)]_vars

\* the folder row at path has a child folder row or a doc row
HasChildOrDoc(path) ==
    \E f \in folders :
        /\ f.rel_path = normalize_folder_path(path)
        /\ \/ \E c \in folders : c.parent_id = f.id
           \/ \E d \in docs : d.folder_id = f.id

\* C7: remove_folder(p, force = false) on a folder that has a child folder or a
\* doc returns an error, leaves every row and the filesystem unchanged and
\* publishes no event.
C7_RemoveNonEmptyRefused ==
    \A path \in FolderInputs :
        HasChildOrDoc(path) =>
            LET out == remove_folder(World, path, FALSE)
            IN /\ ~out.ok
               /\ out.w = World
               /\ out.ev = <<>>

\* a folder with a doc and a child folder, on which the call is refused
C7_Witness ==
    \E f \in folders :
        /\ \E d \in docs : d.folder_id = f.id
        /\ \E c \in folders : c.parent_id = f.id
        /\ ~remove_folder(World, f.rel_path, FALSE).ok

\* C8: after successful catalog calls, every folder row's abs_path is
\* contexts_root joined with its rel_path and is a directory, and every doc row's
\* abs_path is contexts_root joined with its rel_path and is a regular file.
C8_RowsMirrorFilesystem == allOk => RowsMirrorFilesystem

\* C9: after any catalog calls, successful or failed, no two folder rows share a
\* rel_path and no two doc rows share a rel_path.
C9_RelPathUnique ==
    /\ \A f1 \in folders : \A f2 \in folders : f1.rel_path = f2.rel_path => f1.id = f2.id
    /\ \A d1 \in docs : \A d2 \in docs : d1.rel_path = d2.rel_path => d1.id = d2.id

\* a rename_folder whose transaction was rolled back by UNIQUE(rel_path): the
\* directory is renamed, the rows are as before
C9_Witness ==
    /\ ~allOk
    /\ Cardinality(docs) = 2
    /\ \E f \in folders : f.abs_path \notin dirs
    /\ \E d1 \in docs : \E d2 \in docs :
           d1.id # d2.id /\ LastSegment(d1.rel_path) = LastSegment(d2.rel_path)

\* C10: every doc row has a non-empty stable_id no other doc row shares; a doc
\* keeps its stable_id through every call that leaves its row in the table
\* (rename_doc, move_doc, rename_folder, move_folder); get_doc_by_stable_id
\* returns the row at its current rel_path.
C10_StableIdPersists ==
    [][/\ \A d \in docs' : d.stable_id # 0
       /\ \A d1 \in docs' : \A d2 \in docs' : d1.stable_id = d2.stable_id => d1.id = d2.id
       /\ \A d \in docs : \A e \in docs' : d.id = e.id => d.stable_id = e.stable_id
       /\ \A e \in docs' : get_doc_by_stable_id(WorldAfter, e.stable_id) = e]_vars

\* a doc was renamed while another doc exists
C10_Witness ==
    /\ Len(emitted) = 1
    /\ emitted[1].type = "DocRenamed"
    /\ Cardinality(docs) = 2
    /\ get_doc_by_stable_id(World, 1).rel_path = emitted[1].new_path

-----------------------------------------------------------------------------
(* Properties of the events *)

\* out published exactly one event, of the given type
OneEvent(out, type) == Len(out.ev) = 1 /\ out.ev[1].type = type

\* out published one event of the given type carrying rel_path
EmitsPath(out, type, rel_path) == OneEvent(out, type) /\ out.ev[1].rel_path = rel_path

\* out published one event of the given type carrying old_path and new_path
EmitsPaths(out, type, old_path, new_path) ==
    /\ OneEvent(out, type)
    /\ out.ev[1].old_path = old_path
    /\ out.ev[1].new_path = new_path

\* a call that failed published nothing
Silent(out) == out.ev = <<>>

DocCallsEmit ==
    /\ \A folder_path \in FolderInputs : \A name \in DocNames \cup {<<>>, <<"x", "/", "y">>} :
       \A sid \in StableIdInputs :
           LET out == create_doc(World, folder_path, name, sid)
           IN IF out.ok
              THEN EmitsPath(out, "DocCreated", Slash(normalize_folder_path(folder_path), name))
              ELSE Silent(out)
    /\ \A doc_path \in DocInputs :
           /\ LET out == save_doc_content(World, doc_path)
              IN IF out.ok THEN EmitsPath(out, "DocUpdated", normalize_doc_path(doc_path))
                 ELSE Silent(out)
           /\ LET out == remove_doc(World, doc_path)
              IN IF out.ok THEN EmitsPath(out, "DocDeleted", normalize_doc_path(doc_path))
                 ELSE Silent(out)
           /\ \A new_name \in DocNameInputs :
                  LET out == rename_doc(World, doc_path, new_name)
                      old == normalize_doc_path(doc_path)
                  IN IF out.ok
                     THEN EmitsPaths(out, "DocRenamed", old,
                                     Slash(parent_rel_path(old), new_name))
                     ELSE Silent(out)
           /\ \A dest \in FolderInputs :
                  LET out == move_doc(World, doc_path, dest)
                      old == normalize_doc_path(doc_path)
                  IN IF out.ok
                     THEN EmitsPaths(out, "DocMoved", old,
                                     Slash(normalize_folder_path(dest), LastSegment(old)))
                     ELSE Silent(out)

FolderCallsEmit ==
    \A path \in FolderInputs :
        /\ \A new_name \in FolderNameInputs :
               LET out == rename_folder(World, path, new_name)
                   old == normalize_folder_path(path)
                   parent == parent_rel_path(old)
               IN IF out.ok
                  THEN EmitsPaths(out, "FolderRenamed", old,
                                  IF parent = None THEN new_name ELSE Slash(parent, new_name))
                  ELSE Silent(out)
        /\ \A dest \in FolderInputs :
               LET out == move_folder(World, path, dest)
                   old == normalize_folder_path(path)
               IN IF out.ok
                  THEN EmitsPaths(out, "FolderMoved", old,
                                  Slash(normalize_folder_path(dest), LastSegment(old)))
                  ELSE Silent(out)
        /\ \A force \in BOOLEAN :
               LET out == remove_folder(World, path, force)
               IN IF out.ok THEN EmitsPath(out, "FolderDeleted", normalize_folder_path(path))
                  ELSE Silent(out)

QuietCalls ==
    /\ \A path \in NewFolderInputs : Silent(create_folder(World, path))
    /\ \A doc_path \in DocInputs :
           /\ Silent(set_doc_description(World, doc_path))
           /\ Silent(get_doc_meta(World, doc_path))
           /\ Silent(get_doc_content(World, doc_path))

\* C12: every successful create_doc, save_doc_content, rename_doc, move_doc,
\* remove_doc, rename_folder, move_folder and remove_folder publishes exactly
\* one event of its kind carrying the paths of the call; create_folder,
\* set_doc_description, get_doc_meta, get_doc_content and every call that
\* returns an error publish none.
C12_OneEventPerSuccessfulCall == DocCallsEmit /\ FolderCallsEmit /\ QuietCalls

\* a save_doc_content has succeeded and its DocEvent::Updated is on the bus
C12_Witness ==
    /\ Len(emitted) = 1
    /\ emitted[1].type = "DocUpdated"
    /\ find_doc(World, emitted[1].rel_path).id # 0

-----------------------------------------------------------------------------
(* Properties of the calls that are refused *)

\* the call returned an error and left the rows and the filesystem as they were
Refused(out) ==
    /\ ~out.ok
    /\ out.w.folders = folders
    /\ out.w.docs = docs
    /\ out.w.dirs = dirs
    /\ out.w.files = files

HasFolder(rel_path) == find_folder(World, rel_path).id # 0
HasDoc(rel_path) == find_doc(World, rel_path).id # 0

\* the path a row gets below the folder at dest
TargetIn(dest, name) == IF dest = None THEN name ELSE Slash(dest, name)

DocConflictsRefused ==
    /\ \A folder_path \in FolderInputs : \A name \in DocNames : \A sid \in StableIdInputs :
           LET rel_folder_path == normalize_folder_path(folder_path)
           IN ~HasFolder(rel_folder_path) \/ HasDoc(Slash(rel_folder_path, name))
                  => Refused(create_doc(World, folder_path, name, sid))
    /\ \A doc_path \in DocInputs :
           LET rel_doc_path == normalize_doc_path(doc_path)
               doc == find_doc(World, rel_doc_path)
           IN /\ \A new_name \in DocNames \cup NewDocNames :
                     doc.id = 0 \/ HasDoc(TargetIn(parent_rel_path(doc.rel_path), new_name))
                         => Refused(rename_doc(World, doc_path, new_name))
              /\ \A dest \in FolderInputs :
                     LET dest_rel_folder == normalize_folder_path(dest)
                     IN doc.id = 0 \/ ~HasFolder(dest_rel_folder)
                        \/ HasDoc(Slash(dest_rel_folder, doc.name))
                            => Refused(move_doc(World, doc_path, dest))

FolderConflictsRefused ==
    \A path \in FolderInputs :
        LET rel_path == normalize_folder_path(path)
            folder == find_folder(World, rel_path)
        IN /\ \A new_name \in Names \cup NewNames :
                  folder.id = 0 \/ HasFolder(TargetIn(parent_rel_path(rel_path), new_name))
                      => Refused(rename_folder(World, path, new_name))
           /\ \A dest \in FolderInputs :
                  LET dest_rel_folder == normalize_folder_path(dest)
                  IN folder.id = 0 \/ ~HasFolder(dest_rel_folder)
                     \/ HasFolder(Slash(dest_rel_folder, folder.name))
                         => Refused(move_folder(World, path, dest))

\* C14: create_doc, rename_doc, move_doc, rename_folder and move_folder return
\* an error when the target rel_path already exists in the catalog or when the
\* source doc or folder, or the destination folder, does not exist; the folder
\* rows, the doc rows and the filesystem are then unchanged.
C14_ConflictsRefusedUnchanged == DocConflictsRefused /\ FolderConflictsRefused

\* two docs share a folder, so renaming one to the other's name is a conflict,
\* and renaming a doc that is not there is a missing source
C14_Witness ==
    /\ \E d1 \in docs : \E d2 \in docs :
           /\ d1 # d2
           /\ d1.folder_id = d2.folder_id
           /\ find_doc(World, TargetIn(parent_rel_path(d1.rel_path), d2.name)) = d2
           /\ ~rename_doc(World, d1.rel_path, d2.name).ok
    /\ \E f1 \in folders : \E f2 \in folders :
           /\ f1 # f2
           /\ f1.parent_id = f2.parent_id
           /\ ~rename_folder(World, f1.rel_path, f2.name).ok

\* the rel_path the row with the given id holds in rows, None if it is gone
PathOfId(rows, id) ==
    IF \E r \in rows : r.id = id THEN (CHOOSE r \in rows : r.id = id).rel_path ELSE None

\* what a move of the folder at rel_path into the folder dest_folder leaves
MoveFolderPost(out, rel_path, dest_folder) ==
    LET folder == find_folder(World, rel_path)
        new_rel_path == Slash(dest_folder.rel_path, folder.name)
    IN /\ \E f \in out.w.folders :
              /\ f.id = folder.id
              /\ f.rel_path = new_rel_path
              /\ f.parent_id = dest_folder.id
       /\ \A f \in folders :
              StrictlyUnder(f.rel_path, rel_path) =>
                  PathOfId(out.w.folders, f.id)
                      = Slash(new_rel_path, SuffixAfter(f.rel_path, rel_path))
       /\ \A d \in docs :
              StrictlyUnder(d.rel_path, rel_path) =>
                  PathOfId(out.w.docs, d.id)
                      = Slash(new_rel_path, SuffixAfter(d.rel_path, rel_path))
       /\ EmitsPaths(out, "FolderMoved", rel_path, new_rel_path)

\* C15: move_folder(path, dest) is refused with the catalog and the filesystem
\* unchanged when path is root, when dest does not exist, when dest equals path
\* or when dest lies under path/; a move that goes through gives the folder row
\* rel_path = dest.rel_path + "/" + folder.name and parent_id = dest.id, rewrites
\* every row under path/ to the same suffix under the new path and publishes one
\* FolderEvent::Moved.
C15_MoveFolderContract ==
    \A path \in FolderInputs : \A dest \in FolderInputs :
        LET out == move_folder(World, path, dest)
            rel_path == normalize_folder_path(path)
            dest_rel_folder == normalize_folder_path(dest)
        IN /\ \/ rel_path = <<>>
              \/ ~HasFolder(dest_rel_folder)
              \/ dest_rel_folder = rel_path
              \/ StrictlyUnder(dest_rel_folder, rel_path)
                  => Refused(out)
           /\ out.ok => MoveFolderPost(out, rel_path, find_folder(World, dest_rel_folder))

-----------------------------------------------------------------------------
(* Properties of the subtree of a folder call *)

\* the rows that are neither at p nor under p/ are in w as they are in the state
RowsOutsideKept(w, p) ==
    /\ \A f \in folders : ~AtOrUnder(f.rel_path, p) => f \in w.folders
    /\ \A d \in docs : ~AtOrUnder(d.rel_path, p) => d \in w.docs

\* C27: rename_folder(p, ..), move_folder(p, ..) and remove_folder(p, force = true)
\* change or delete only rows whose rel_path is p or begins with p followed by
\* "/"; the rows of other folders stay as they are, whatever their paths match
\* under LIKE.
C27_OnlyRowsOfTheSubtreeChange ==
    \A path \in FolderInputs :
        LET p == normalize_folder_path(path)
        IN /\ \A new_name \in FolderNameInputs :
                  RowsOutsideKept(rename_folder(World, path, new_name).w, p)
           /\ \A dest \in FolderInputs : RowsOutsideKept(move_folder(World, path, dest).w, p)
           /\ RowsOutsideKept(remove_folder(World, path, TRUE).w, p)

-----------------------------------------------------------------------------
(* Properties of the listings *)

\* the elements of a sequence
Elements(seq) == {seq[i] : i \in DOMAIN seq}

\* seq holds each of rows once, in the order of field
ListsOrdered(seq, rows, field) ==
    /\ Elements(seq) = rows
    /\ Len(seq) = Cardinality(rows)
    /\ \A i \in DOMAIN seq : \A j \in DOMAIN seq :
           i < j => StrLessEq(seq[i][field], seq[j][field])

\* list_docs on the root folder
ListDocsAtRoot ==
    \A root \in RootInputs :
        LET deep == list_docs(World, root, TRUE)
            flat == list_docs(World, root, FALSE)
        IN /\ deep.ok /\ ListsOrdered(deep.ret, docs, "rel_path")
           /\ flat.ok /\ ListsOrdered(flat.ret, {d \in docs : d.folder_id = 0}, "name")

\* list_docs on the folders of the catalog
ListDocsInFolder ==
    \A f \in folders :
        LET deep == list_docs(World, f.rel_path, TRUE)
            flat == list_docs(World, f.rel_path, FALSE)
        IN /\ deep.ok
           /\ ListsOrdered(deep.ret, {d \in docs : StrictlyUnder(d.rel_path, f.rel_path)},
                           "rel_path")
           /\ flat.ok /\ ListsOrdered(flat.ret, {d \in docs : d.folder_id = f.id}, "name")

\* C17: list_docs accepts the root folder path ("", "." or "/"): with
\* recursive = TRUE it returns every doc row ordered by rel_path, with
\* recursive = FALSE the docs that have no folder, ordered by name; for a
\* folder f other than root it returns the docs under f/ (recursive) or the
\* docs whose folder_id is the id of f (not recursive).
C17_ListDocs == ListDocsAtRoot /\ ListDocsInFolder

\* parent_id is NULL on the folders of one segment and names the row at the
\* parent path on the others
ParentMatchesPath ==
    \A f \in folders :
        IF ~ContainsSlash(f.rel_path) THEN f.parent_id = 0
        ELSE /\ f.parent_id # 0
             /\ f.parent_id = find_folder(World, parent_rel_path(f.rel_path)).id

\* C18: after any sequence of successful catalog operations a folder row's
\* parent_id is null exactly when its rel_path has a single segment and
\* otherwise references the folder row at parent_rel_path(rel_path); hence
\* list_folders(false) returns exactly the folders whose rel_path holds no "/".
C18_ParentIdMatchesPath ==
    allOk =>
        /\ ParentMatchesPath
        /\ ListsOrdered(list_folders(World, FALSE).ret,
                        {f \in folders : ~ContainsSlash(f.rel_path)}, "name")

-----------------------------------------------------------------------------
(* Properties of the description and updated_at columns *)

\* the outcomes of the calls that write a row of an entity
WriteOutcomes(ts) ==
    CreateFolderOutcomes(ts) \cup RenameFolderOutcomes(ts) \cup MoveFolderOutcomes(ts)
    \cup CreateDocOutcomes(ts) \cup MoveDocOutcomes(ts) \cup RenameDocOutcomes(ts)
    \cup SetDocDescriptionOutcomes(ts) \cup SaveDocContentOutcomes(ts)

\* every row the call wrote that existed before holds a greater updated_at
UpdatedAtGrew(s) ==
    /\ \A id \in s.written_folders \cap DOMAIN folderMeta :
           s.folders[id].updated_at > folderMeta[id].updated_at
    /\ \A id \in s.written_docs \cap DOMAIN docMeta :
           s.docs[id].updated_at > docMeta[id].updated_at

\* C11: every catalog write to a folder or a doc (create, save_doc_content,
\* set_doc_description, rename, move, create_folder on an existing folder)
\* stores an updated_at strictly greater than the one the row had before.
C11_UpdatedAtStrictlyGreater ==
    \A ts \in now_iso : \A s \in WriteOutcomes(ts) : s.out.ok => UpdatedAtGrew(s)

\* the paths a caller may pass that name a folder of the catalog
ExistingFolderInputs ==
    {path \in NewFolderInputs \cup {f.rel_path : f \in folders} :
        HasFolder(normalize_folder_path(path))}

\* every proper ancestor of rel_path has a folder row
RECURSIVE AncestorsHaveRows(_)
AncestorsHaveRows(rel_path) ==
    LET parent == parent_rel_path(rel_path)
    IN parent = None \/ parent = <<>> \/ (HasFolder(parent) /\ AncestorsHaveRows(parent))

\* the call succeeded, created no row, published nothing, and left every
\* column of every row but the folder's own description and updated_at
OnlyFolderTouched(s, folder) ==
    /\ s.out.ok
    /\ s.out.w = World
    /\ s.out.ev = <<>>
    /\ s.docs = docMeta
    /\ DOMAIN s.folders = DOMAIN folderMeta
    /\ \A id \in DOMAIN folderMeta : id # folder.id => s.folders[id] = folderMeta[id]

-----------------------------------------------------------------------------
(* Properties of the synchronisation service *)

\* the two documents of the scenarios: a and b of the text are a/x and a/y
DocA == <<"a", "/", "x">>
DocB == <<"a", "/", "y">>

\* the actions derived from a sequence of events, in order
RECURSIVE DerivedActions(_)
DerivedActions(events) ==
    IF events = <<>> THEN <<>>
    ELSE event_to_actions(Head(events)) \o DerivedActions(Tail(events))

\* the path key of an action
ActionKey(action) == IF action.kind = "Rename" THEN action.new_path ELSE action.rel_path

\* the paths an action names
ActionPaths(action) ==
    IF action.kind = "Rename" THEN {action.old_path, action.new_path} ELSE {action.rel_path}

\* the coalescing rule for one action: Update{p} / Remove{p}: pending[p] := action;
\* Rename{o, n}: delete pending[o], then pending[n] := action
CoalesceRule(m, action) ==
    IF action.kind \in {"Update", "Remove"}
    THEN [p \in DOMAIN m \cup {action.rel_path} |-> IF p = action.rel_path THEN action ELSE m[p]]
    ELSE [p \in (DOMAIN m \ {action.old_path}) \cup {action.new_path} |->
              IF p = action.new_path THEN action ELSE m[p]]

\* the fold of the coalescing rule over a sequence of actions
RECURSIVE Coalesced(_)
Coalesced(acts) ==
    IF acts = <<>> THEN <<>>
    ELSE CoalesceRule(Coalesced(SubSeq(acts, 1, Len(acts) - 1)), acts[Len(acts)])

\* the for loop of the flush has run to its end
FlushExecuted == flushPc = "executing" /\ actions = {}

\* scenario 5: Created{a}, Updated{a}, Renamed{a -> b}, Updated{b} between two ticks
Scenario5 == << DocCreated(DocA), DocUpdated(DocA), DocRenamed(DocA, DocB), DocUpdated(DocB) >>

\* C1: when Created{a}, Updated{a}, Renamed{a -> b}, Updated{b} are received in
\* that order between two ticks, the map drained at the next tick is
\* {b: Rename{a, b}}, and executing the batch leaves no chunk of a in the index
\* and calls index_file(b) exactly once.
C1_Scenario5Drain ==
    drainedFrom = Scenario5 =>
        /\ drained = MapInsert(<<>>, DocB, Rename(DocA, DocB))
        /\ FlushExecuted =>
               /\ \A row \in BagToSet(chunks) : row.file_path # DocA
               /\ Cardinality({i \in DOMAIN indexerCalls :
                                   indexerCalls[i] = <<"index_file", DocB>>}) = 1

\* C2: pending_actions is the fold of the coalescing rules over the actions derived
\* from the events the listener has processed since the last drain, one action per
\* path key; a flush executes at most as many actions as the events name distinct
\* paths, each at most once, and the action it executes for a path is the
\* coalesced one.
C2_CoalescingFold ==
    /\ pending_actions = Coalesced(DerivedActions(received))
    /\ \A k \in DOMAIN pending_actions : ActionKey(pending_actions[k]) = k
    /\ flushPc = "executing" =>
           /\ drained = Coalesced(DerivedActions(drainedFrom))
           /\ Len(executed) + Cardinality(actions)
                  <= Cardinality(UNION {ActionPaths(DerivedActions(drainedFrom)[i]) :
                                            i \in DOMAIN DerivedActions(drainedFrom)})
           /\ \A i \in DOMAIN executed :
                  /\ ActionKey(executed[i]) \in DOMAIN drained
                  /\ executed[i] = drained[ActionKey(executed[i])]
           /\ \A i \in DOMAIN executed : \A j \in DOMAIN executed :
                  ActionKey(executed[i]) = ActionKey(executed[j]) => i = j
           /\ actions = {} => Range(executed) = MapValues(drained)

\* a flush has executed a batch of two actions, one a Rename, coalesced from four events
C2_Witness ==
    /\ FlushExecuted
    /\ Len(drainedFrom) = 4
    /\ Len(executed) = 2
    /\ Len(DerivedActions(drainedFrom)) > Len(executed)
    /\ \E i \in DOMAIN executed : executed[i].kind = "Rename"

-----------------------------------------------------------------------------
(* Properties of one flush *)

\* the flush has executed every action it drained, each returned Ok, and no event
\* has arrived since the drain
FlushSucceeded ==
    /\ FlushExecuted
    /\ error_count = 0
    /\ success_count = Cardinality(DOMAIN drained)
    /\ pending_actions = <<>>

\* C26: when the index exists and every executed action succeeds, after a flush
\* that drained the actions derived from a sequence of doc events the vector
\* table holds no chunk whose file_path no longer names a doc.
C26_NoChunkOfAVanishedPath ==
    FlushSucceeded => \A row \in BagToSet(chunks) : row.file_path \in DocFiles

-----------------------------------------------------------------------------
(* Properties of the listener and the flush task *)

\* the step is a tick that takes the whole map
TakesAll == drained' = pending_actions /\ pending_actions' = <<>>

\* the step is the listener folding one event into the map, apart from the flush
FoldsOneEvent ==
    /\ Len(received') = Len(received) + 1
    /\ pending_actions' =
           insert_actions(pending_actions, event_to_actions(received'[Len(received')]))
    /\ UNCHANGED <<drained, actions, executed, flushPc>>

\* the step is one iteration of the for loop on a drained action not executed yet
ExecutesOne ==
    \E action \in actions :
        /\ actions' = actions \ {action}
        /\ executed' = Append(executed, action)
        /\ \A i \in DOMAIN executed : executed[i] # action
        /\ UNCHANGED <<pending_actions, drained>>

C29_EveryDrainedActionAttempted ==
    flushPc = "executing" =>
        /\ success_count + error_count = Len(executed)
        /\ Len(executed) + Cardinality(actions) = Cardinality(DOMAIN drained)
        /\ Range(executed) \cup actions = MapValues(drained)
        /\ actions # {} => ENABLED ExecuteAction
        /\ actions = {} =>
               /\ success_count + error_count = Cardinality(DOMAIN drained)
               /\ ENABLED FinishFlush

\* a flush has attempted both actions of its batch although the first one failed
C29_Witness ==
    /\ FlushExecuted
    /\ Cardinality(DOMAIN drained) = 2
    /\ error_count >= 1
    /\ success_count >= 1
    /\ indexerCalls # <<>>

-----------------------------------------------------------------------------
(* Properties of the service started before the build *)

\* the step is a tick that drains the map
TickDrains == flushPc = "idle" /\ pending_actions # <<>> /\ pending_actions' = <<>>

\* C30: when the service starts without an index and build_all on another
\* Indexer builds the index afterwards, every later tick of the service finds the
\* index and executes the actions it drains instead of dropping them.
C30_TicksSeeTheIndexBuiltLater ==
    [][(lance.table /\ TickDrains) =>
           (flushPc' = "executing" /\ actions' = MapValues(pending_actions))]_vars

-----------------------------------------------------------------------------
(* Properties of the index *)

\* the rows of one file, each as often as the table holds it
RowsOf(rel_path) ==
    [row \in {x \in BagToSet(chunks) : x.file_path = rel_path} |-> chunks[row]]

\* the chunks the last indexing of the file built; none when it was never indexed
Expected(rel_path) ==
    IF rel_path \in DOMAIN lastIndexed THEN lastIndexed[rel_path] ELSE <<>>

UniqueChunkIds ==
    \A row \in BagToSet(chunks) :
        /\ chunks[row] = 1
        /\ \A other \in BagToSet(chunks) : other.id = row.id => other = row

RowsOfLastIndexing == \A p \in IndexPaths : RowsOf(p) = Rows(Expected(p))

\* no file was last indexed with two entries of one id
DistinctEntryIds ==
    \A p \in IndexPaths : \A i \in DOMAIN Expected(p) : \A j \in DOMAIN Expected(p) :
        Expected(p)[i].id = Expected(p)[j].id => i = j

\* C19: after any sequence of successful index_file, remove_file and
\* update_file_path calls on one Indexer, no two rows of the table share a chunk
\* id, and the rows of a file are exactly the chunks built from its content at
\* its most recent index_file (none once it was removed or renamed away).
C19_RowsOfMostRecentIndexing == allOk => UniqueChunkIds /\ RowsOfLastIndexing

\* the same, for files whose entries carry distinct ids
RowsWhenEntryIdsDistinct ==
    (allOk /\ DistinctEntryIds) => UniqueChunkIds /\ RowsOfLastIndexing

\* the last call was a build_all that returned Ok
BuildAllReturnedOk ==
    /\ indexerCalls # <<>>
    /\ indexerCalls[1][1] = "build_all"
    /\ indexerCalls[1][2]

\* C20: after a successful build_all(docs) the table holds exactly the chunks
\* built from the given docs, none of the rows from before the call, and the
\* total_chunks it returned is the total_chunks get_stats reports.
C20_BuildAllReplacesTheIndex ==
    BuildAllReturnedOk =>
        /\ \A p \in IndexPaths : RowsOf(p) = Rows(lastIndexed[p])
        /\ \A row \in BagToSet(chunks) : row.file_path \in IndexPaths
        /\ indexerCalls[1][3] = get_stats(Index).total_chunks

\* a build_all of two files stored three chunks
C20_Witness ==
    /\ BuildAllReturnedOk
    /\ indexerCalls[1][3] = 3
    /\ Cardinality({row.file_path : row \in BagToSet(chunks)}) = 2

-----------------------------------------------------------------------------
(* Properties of build_all *)

\* the last call was build_all; its record holds the value returned, total_chunks,
\* the progress reported, the batch reached, the docs and what their files held
LastBuild ==
    IF indexerCalls # <<>> /\ indexerCalls[1][1] = "build_all"
    THEN [called |-> TRUE, ok |-> indexerCalls[1][2], total_chunks |-> indexerCalls[1][3],
          progress |-> indexerCalls[1][4], batch |-> indexerCalls[1][5],
          paths |-> indexerCalls[1][6], texts |-> indexerCalls[1][7]]
    ELSE [called |-> FALSE]

BuildFailed == LastBuild.called /\ ~LastBuild.ok
BuildStored == LastBuild.called /\ LastBuild.ok /\ LastBuild.total_chunks > 0

\* the chunks of a list of docs
RECURSIVE ChunksOfDocs(_, _)
ChunksOfDocs(paths, texts) ==
    IF paths = <<>> THEN <<>>
    ELSE doc_chunks(Head(paths), texts[Head(paths)]) \o ChunksOfDocs(Tail(paths), texts)

\* the store, the table and the vectors agree on one dimension
SettledIn(ix) ==
    /\ ix.indexer.dimensions_verified
    /\ ix.indexer.dimensions = ix.embedding.vector_length
    /\ ix.table = ix.lance.table
    /\ ix.lance.table => ix.lance.dimensions = ix.embedding.vector_length

\* the docs of a list all have their file
AllPresent(paths) == \A i \in DOMAIN paths : fs_exists(World, AbsJoin(paths[i]))

\* every build_all whose files are there and whose calls do not fail returns Ok
\* and leaves store, table and vectors at one dimension
BuildsSucceed ==
    \A paths \in {l \in BatchLists : AllPresent(l)} : \A texts \in BatchReadings(paths) :
        LET out == build_all(Index, paths, texts, NoFault)
        IN /\ out.ok
           /\ out.ix.indexer.recreated <= 1
           /\ out.total_chunks > 0 => SettledIn(out.ix)

\* once they agree, every index_file whose file is there and whose embedding call
\* does not fail returns Ok, and they still agree
UpsertsSucceed ==
    SettledIn(Index) =>
        \A rel_path \in {p \in IndexPaths : fs_exists(World, AbsJoin(p))} :
            \A text \in BatchTextsOf(rel_path) :
                LET out == index_file(Index, rel_path, text, TRUE)
                IN out.ok /\ SettledIn(out.ix)

\* C21: when the embedding API returns vectors of another length than the
\* configured dimensions, build_all re-creates the vector store at that length
\* before its first upsert, so that no row is stored at the configured dimension;
\* the store is re-created at most once per Indexer, and all later upserts
\* succeed at the observed dimension.
C21_StoreRecreatedAtObservedDimension ==
    /\ indexer.recreated <= 1
    /\ chunks # EmptyBag => lance.table /\ lance.dimensions = embedding.vector_length
    /\ BuildStored =>
           /\ SettledIn(Index)
           /\ indexer.recreated = IF embedding.vector_length = config_dimensions THEN 0 ELSE 1
    /\ BuildsSucceed
    /\ UpsertsSucceed

\* a build of two batches stored rows at the observed dimension, on a database
\* whose table the store was created for at the configured dimension
C21_Witness ==
    /\ BuildStored
    /\ embedding.vector_length # config_dimensions
    /\ indexer.recreated = 1
    /\ lance.dimensions = embedding.vector_length
    /\ \E i \in DOMAIN LastBuild.progress : LastBuild.progress[i] = <<"storing", 2>>

\* C22: when reading a doc, the embedding call or the upsert fails in batch k,
\* build_all returns the error at once: nothing of a later batch is chunked,
\* embedded or stored, no "done" progress is reported, and the store, reset at
\* the start, holds exactly the chunks of the batches before k.
C22_BuildStopsAtFirstError ==
    BuildFailed =>
        LET k == LastBuild.batch
            before == SubSeq(LastBuild.paths, 1, (k - 1) * batch_size)
        IN /\ k >= 1
           /\ \A i \in DOMAIN LastBuild.progress :
                  LastBuild.progress[i][1] # "done" /\ LastBuild.progress[i][2] <= k
           /\ chunks = Rows(ChunksOfDocs(before, LastBuild.texts))

\* a build failed in its second batch with the rows of the first in the store
C22_Witness ==
    /\ BuildFailed
    /\ LastBuild.batch = 2
    /\ Len(LastBuild.paths) = 3
    /\ chunks # EmptyBag

-----------------------------------------------------------------------------
(* Properties of generate_stable_id *)

DashPositions == {9, 14, 19, 24}

\* where the j-th hex digit of the 32 stands in the string
PositionOfDigit(j) ==
    IF j <= 8 THEN j ELSE IF j <= 12 THEN j + 1 ELSE IF j <= 16 THEN j + 2
    ELSE IF j <= 20 THEN j + 3 ELSE j + 4

\* the j-th half byte of a blob, the high half of each byte first
HalfByte(bytes, j) ==
    LET v == bytes[(j + 1) \div 2] IN IF j % 2 = 1 THEN v \div 16 ELSE v % 16

\* the value a lowercase hex digit stands for; 16 for any other character
HexValue(c) ==
    CASE c = "0" -> 0 [] c = "1" -> 1 [] c = "2" -> 2 [] c = "3" -> 3 [] c = "4" -> 4
      [] c = "5" -> 5 [] c = "6" -> 6 [] c = "7" -> 7 [] c = "8" -> 8 [] c = "9" -> 9
      [] c = "a" -> 10 [] c = "b" -> 11 [] c = "c" -> 12 [] c = "d" -> 13
      [] c = "e" -> 14 [] c = "f" -> 15 [] OTHER -> 16

\* C24: for every blob of 16 bytes generate_stable_id returns 36 characters,
\* lowercase hex digits in groups of 8-4-4-4-12 with dashes between the groups;
\* the 15th character is 4, the 20th is one of 8, 9, a, b, and every other hex
\* digit is the half byte of the blob at its place.
C24_StableIdFormat ==
    returned # <<>> =>
        /\ Len(returned) = 36
        /\ \A p \in 1..36 : (returned[p] = "-") <=> (p \in DashPositions)
        /\ \A p \in (1..36) \ DashPositions : HexValue(returned[p]) < 16
        /\ returned[15] = "4"
        /\ returned[20] \in {"8", "9", "a", "b"}
        /\ \A j \in (1..32) \ {13, 17} :
               HexValue(returned[PositionOfDigit(j)]) = HalfByte(given, j)

\* an id was generated from a blob whose version and variant bits had to change
C24_Witness ==
    /\ returned # <<>>
    /\ given[7] \div 16 # 4
    /\ given[9] \div 64 # 2
    /\ \E i \in 1..BlobLen : given[i] \notin {0, 255}

-----------------------------------------------------------------------------
(* Properties of Chunker::chunk *)

\* a character a split may cut at
IsBreak(c) ==
    \/ is_whitespace(c)
    \/ \E i \in DOMAIN sentence_ends : sentence_ends[i][1] = c
    \/ \E i \in DOMAIN clause_ends : clause_ends[i] = c

\* the text holds more than n characters in a row that no split may cut at
HasIndivisibleSegment(text, n) ==
    \E i \in 1..(Len(text) - n) : \A j \in i..(i + n) : ~IsBreak(text[j])

ChunkReturned == returned # <<>>

\* C23: every chunk Chunker::chunk returns is cut at character boundaries and has
\* at most max_chunk_chars characters, unless it holds a segment longer than the
\* limit that no split can divide.
C23_ChunksWithinLimit ==
    ChunkReturned =>
        /\ ~returned.panic
        /\ \A i \in DOMAIN returned.chunks :
               \/ Len(returned.chunks[i]) <= given.chunker.max_chunk_chars
               \/ HasIndivisibleSegment(returned.chunks[i], given.chunker.max_chunk_chars)

-----------------------------------------------------------------------------
(* Properties of the order of effects *)

Removals == {"remove_doc", "remove_folder"}

\* every row the call has written so far names a directory or file that is there
RowsWrittenAreOnDisk ==
    /\ \A f \in folders \ given.before.folders : AbsJoin(f.rel_path) \in dirs
    /\ \A d \in docs \ given.before.docs : AbsJoin(d.rel_path) \in files

\* every directory or file the call has removed so far has no row any more
RowsOfRemovedAreGone ==
    /\ \A f \in folders : AbsJoin(f.rel_path) \in given.before.dirs => AbsJoin(f.rel_path) \in dirs
    /\ \A d \in docs : AbsJoin(d.rel_path) \in given.before.files => AbsJoin(d.rel_path) \in files

\* C25: create_folder, create_doc, rename_doc, move_doc, rename_folder and
\* move_folder change the filesystem before they write the store; remove_doc and
\* remove_folder delete the rows first and remove the file or directory afterwards.
C25_FilesystemAndStoreOrder ==
    given # NoStep =>
        IF given.op \in Removals THEN RowsOfRemovedAreGone ELSE RowsWrittenAreOnDisk

-----------------------------------------------------------------------------
(* Properties of concurrent calls *)

\* the world after thread t's call, then thread u's call, one after the other
SerialWorld(t, u) ==
    RunCall(RunCall(ConcWorld0, threads[t].call, t).w, threads[u].call, u).w

\* C5: when two calls made concurrently on the same OpenContext have both
\* returned, the rows and the filesystem are those of one of the two serial orders
\* of the calls, rel_path is unique in each table (I4) and every doc's folder_id
\* references the folder at its parent path (I5).
C5_ConcurrentCallsSerialize ==
    (\A t \in DOMAIN threads : threads[t].pc = "done") =>
        /\ World \in {SerialWorld(1, 2), SerialWorld(2, 1)}
        /\ unique_rel_path(folders)
        /\ unique_rel_path(docs)
        /\ DocFolderMatchesPath

\* the calls that have published their event
Published == {t \in DOMAIN threads : threads[t].pc = "done" /\ threads[t].published > 0}

\* C13: an event is published only after the filesystem step and the store
\* step of its call have succeeded, and the events appear on the bus in the
\* order in which the calls' store writes completed, also when the calls
\* run concurrently.
C13_EventsInStoreOrder ==
    /\ Len(emitted) = Cardinality(Published)
    /\ \A t \in Published : threads[t].stored > 0
    /\ \A t \in Published : \A u \in Published :
           threads[t].stored < threads[u].stored => threads[t].published < threads[u].published

-----------------------------------------------------------------------------
(* Properties of the tasks that write the vector store *)

\* C31: no two tasks mutate the vector store at the same time: a flush of the
\* sync service and a build_all started from the application never both are
\* between taking and dropping their Indexer guard
C31_OneTaskMutatesTheStore ==
    ~(Locked("IndexSyncService.indexer") /\ Locked("AppState.indexer"))

-----------------------------------------------------------------------------
(* Properties of index_file on a table of another dimension *)

\* C32: when index_file, on the Indexer's first embedding, observes a vector
\* length other than the configured dimensions while the store holds rows, the
\* store is re-created at the observed dimension: the rows stored before are
\* gone and the upsert of the new chunks succeeds.
C32_IndexFileRecreatesTheStore ==
    (/\ indexerCalls # <<>>
     /\ indexerCalls[1][1] = "index_file"
     /\ indexer.recreated = 1) =>
        /\ indexerCalls[1][2]
        /\ lance.dimensions = embedding.vector_length
        /\ \A row \in BagToSet(chunks) : row.file_path \in DOMAIN lastIndexed

-----------------------------------------------------------------------------
(* Properties of updated_at when a doc is read *)

\* C33: get_doc_meta and get_doc_content never decrease a doc's stored
\* updated_at: after save_doc_content, which writes the file (at the time
\* written) and then stamps updated_at from a later clock reading ts, a
\* get_doc_meta with no edit in between returns and stores that updated_at.
C33_ReadKeepsUpdatedAt ==
    \A doc_path \in DocInputs : \A ts \in now_iso : \A written \in clock..ts :
        LET saved == save_doc_content_at(Meta, World, doc_path, None, ts)
            doc == find_doc(World, normalize_doc_path(doc_path))
            read == get_doc_meta_at([folders |-> saved.folders, docs |-> saved.docs],
                                    saved.out.w, doc_path, written)
        IN saved.out.ok =>
               /\ read.out.ok
               /\ read.docs[doc.id].updated_at >= saved.docs[doc.id].updated_at

-----------------------------------------------------------------------------
(* Properties of files without a row *)

\* a regular file no doc row names
Untracked(p) == p \in files /\ \A d \in docs : d.abs_path # p

\* the model follows what every file holds
ContentsFollowFiles == DOMAIN contents = files

\* C34: create_doc, rename_doc and move_doc never truncate, overwrite or replace
\* a file that exists at the target path without a catalog row: every untracked
\* file holds after each step what it held before.
C34_UntrackedFilesKept ==
    [][\A p \in DOMAIN contents :
           Untracked(p) => p \in DOMAIN contents' /\ contents'[p] = contents[p]]_vars

-----------------------------------------------------------------------------
(* Properties of the paths a call touches *)

\* the directories and files a step creates, moves away or deletes
Touched ==
    LET before == dirs \cup files
        after == dirs' \cup files'
    IN (after \ before) \cup (before \ after)

\* C35: for every input path and name, each filesystem path a catalog call
\* creates, renames or deletes lies inside contexts_root: inputs with ".."
\* segments are rejected or confined to the tree under contexts_root.
C35_EffectsInsideContextsRoot ==
    [][\A p \in Touched : Under(p, contexts_root)]_vars

-----------------------------------------------------------------------------
(* Properties of split_chunk *)

\* the text chunk() hands to split_chunk at the last event, a Text outside a
\* heading: current_text with the text of the event pushed; <<>> otherwise
SplitGiven ==
    IF given.events = <<>> THEN <<>>
    ELSE LET last == given.events[Len(given.events)]
             st == chunk_events(given.chunker,
                                [chunks |-> <<>>, current_text |-> <<>>, in_heading |-> FALSE,
                                 panic |-> FALSE],
                                SubSeq(given.events, 1, Len(given.events) - 1))
         IN IF last.kind = "Text" /\ ~st.panic /\ ~st.in_heading
            THEN st.current_text \o last.text
            ELSE <<>>

\* C36: for every text longer than max_chunk_chars, split_chunk returns a
\* remainder with strictly fewer characters than the text it was given, also
\* when the split point is at most overlap_chars from the start.
C36_RemainderIsShorter ==
    \E split \in {split_chunk(given.chunker, SplitGiven)} :
        (Len(SplitGiven) > given.chunker.max_chunk_chars /\ ~split.panic) =>
            Len(split.remainder) < Len(SplitGiven)

-----------------------------------------------------------------------------
(* Properties of event_to_actions *)

\* the events the listener has received since the last drain and those a catalog
\* call can publish now, each rename also as the move with the same paths
EventsSeen ==
    LET seen == Range(received) \cup DocEventsNow \cup FolderEventsNow
    IN seen \cup {[e EXCEPT !.type = "DocMoved"] : e \in {x \in seen : x.type = "DocRenamed"}}
            \cup {[e EXCEPT !.type = "FolderMoved"] :
                      e \in {x \in seen : x.type = "FolderRenamed"}}

\* C37: event_to_actions maps Doc Created or Updated to one Update{path}, Doc
\* Deleted to one Remove{path}, Doc Renamed or Moved to one Rename{old,new},
\* Folder Created to no action, Folder Renamed or Moved to one Rename per pair
\* of affected_docs, Folder Deleted to one Remove per path of removed_docs.
C37_EventToActions ==
    \A event \in EventsSeen :
        LET acts == event_to_actions(event)
        IN /\ event.type \in {"DocCreated", "DocUpdated"} =>
                  acts = <<[kind |-> "Update", rel_path |-> event.rel_path]>>
           /\ event.type = "DocDeleted" =>
                  acts = <<[kind |-> "Remove", rel_path |-> event.rel_path]>>
           /\ event.type \in {"DocRenamed", "DocMoved"} =>
                  acts = <<[kind |-> "Rename", old_path |-> event.old_path,
                            new_path |-> event.new_path]>>
           /\ event.type = "FolderCreated" => acts = <<>>
           /\ event.type \in {"FolderRenamed", "FolderMoved"} =>
                  /\ Len(acts) = Len(event.affected_docs)
                  /\ \A i \in DOMAIN acts :
                         acts[i] = [kind |-> "Rename", old_path |-> event.affected_docs[i][1],
                                    new_path |-> event.affected_docs[i][2]]
           /\ event.type = "FolderDeleted" =>
                  /\ Len(acts) = Len(event.removed_docs)
                  /\ \A i \in DOMAIN acts :
                         acts[i] = [kind |-> "Remove", rel_path |-> event.removed_docs[i]]

\* the listener has folded a folder event that names two docs, and their actions
\* are in the pending map
C37_Witness ==
    \E i \in DOMAIN received :
        /\ received[i].type \in {"FolderRenamed", "FolderDeleted"}
        /\ Len(event_to_actions(received[i])) = 2
        /\ \A j \in 1..2 : event_to_actions(received[i])[j] \in MapValues(pending_actions)

-----------------------------------------------------------------------------
(* Properties of the disabled service *)

\* C38: while the service is disabled the pending map stays as it is, and a tick
\* that finds the service disabled (the ticker is idle, no flush is under way)
\* starts no flush and invokes no indexer operation; the actions queued before
\* set_enabled(false) are in the map at set_enabled(true).
C38_DisabledTickSkips ==
    [][~enabled =>
         /\ pending_actions' = pending_actions
         /\ flushPc = "idle" =>
                /\ flushPc' = "idle"
                /\ indexerCalls' = indexerCalls
                /\ chunks' = chunks
                /\ tableExists' = tableExists]_vars

\* the service is disabled with actions pending and the ticker idle
C38_Witness ==
    /\ ~enabled
    /\ flushPc = "idle"
    /\ pending_actions # <<>>
    /\ received # <<>>

-----------------------------------------------------------------------------
(* Properties of the ticker that keeps firing *)

\* the key of an action in the pending map
PendingKey(action) == IF action.kind = "Rename" THEN action.new_path ELSE action.rel_path

\* a later action has taken the place of action in the pending map: one on the
\* same key, or a rename away from its key
Replaced(action) ==
    /\ action \notin MapValues(pending_actions)
    /\ \E later \in MapValues(pending_actions) :
           \/ PendingKey(later) = PendingKey(action)
           \/ later.kind = "Rename" /\ later.old_path = PendingKey(action)

\* the service is enabled and the index exists all along
LiveServiceStays == enabled /\ index_exists(Index)

\* C39 as stated: every action that is placed in the pending map is eventually
\* executed by a flush.
C39_EveryPendingActionExecuted ==
    \A action \in LiveActions :
        (action \in MapValues(pending_actions)) ~> (action \in Range(executed))

\* C39: with the service enabled, the index existing and the ticker firing, every
\* action in the pending map is eventually drained by a tick unless a later event
\* on its path replaces it first, and every drained action is eventually executed;
\* no action stays pending forever.
C39_PendingActionsAreFlushed ==
    \A action \in LiveActions :
        /\ (action \in MapValues(pending_actions)) ~> (action \in actions \/ Replaced(action))
        /\ (action \in actions) ~> (action \in Range(executed))

\* a flush has executed the two actions its tick drained
C39_Witness ==
    /\ flushPc = "executing"
    /\ Cardinality(DOMAIN drained) = 2
    /\ MapValues(drained) = Range(executed)
    /\ actions = {}

-----------------------------------------------------------------------------
(* Properties of start_index_sync *)

\* C40: start_index_sync returns true exactly when it started a service and
\* false exactly when one was running, and INDEX_SYNC_RUNNING is true only while
\* a service task runs; after a start that failed before the spawn the flag is
\* false.
C40_FlagTracksService ==
    /\ node.INDEX_SYNC_RUNNING => node.service # "none"
    /\ (node.returned.result = "Ok(true)") = node.returned.started
    /\ (node.returned.result = "Ok(false)") = node.returned.was_running

====
